---- MODULE Spec2Model ----
(***************************************************************************)
(* JIT-ARM-compiler: the expression parser (ExpressionParser), the         *)
(* stack-machine emitter (ARM_JIT_Compiler), the entry point               *)
(* jit_compile_expression_to_arm, and an A32 interpreter for the words     *)
(* the emitter produces.                                                   *)
(*                                                                         *)
(* Texts are sequences of one-character strings; an iterator is a 0-based  *)
(* offset from expression_.begin().  A 32-bit word is the pair <<hi, lo>>  *)
(* of its two 16-bit halves, so that uint32_t arithmetic wraps modulo 2^32 *)
(* without leaving the range of the model checker's integers.              *)
(***************************************************************************)
EXTENDS Integers, Sequences, FiniteSets, TLC

----------------------------------------------------------------------------
(* 32-bit words                                                            *)

Half == 65536

W(h, l) == <<h, l>>

Zero32 == W(0, 0)

SmallW(k) == W(k \div Half, k % Half)

AddW(a, b) ==
    LET lo == a[2] + b[2]
    IN  W((a[1] + b[1] + (lo \div Half)) % Half, lo % Half)

SubW(a, b) ==
    LET lo == a[2] - b[2]
        borrow == IF lo < 0 THEN 1 ELSE 0
    IN  W((a[1] - b[1] - borrow + 2 * Half) % Half, (lo + Half) % Half)

(* 32-bit product of two 16-bit halves, as <<hi, lo>> *)
Mul16(a, b) ==
    LET a0 == a % 256
        a1 == a \div 256
        x == a0 * b
        y == a1 * b
        low == (x % Half) + ((y % 256) * 256)
    IN  W(((x \div Half) + (y \div 256) + (low \div Half)) % Half, low % Half)

MulW(a, b) ==
    LET ll == Mul16(a[2], b[2])
        hl == Mul16(a[1], b[2])
        lh == Mul16(a[2], b[1])
    IN  W((ll[1] + hl[2] + lh[2]) % Half, ll[2])

Pow2(k) == 2 ^ k

HasBit(a, k) == (a \div Pow2(k)) % 2 = 1

(* the bitwise or of the numbers of the set s, each below 2^16 *)
BitOr(s) ==
    LET bit(k) == IF \E a \in s : HasBit(a, k) THEN Pow2(k) ELSE 0
    IN  (((bit(0) + bit(1)) + (bit(2) + bit(3))) + ((bit(4) + bit(5)) + (bit(6) + bit(7))))
        + (((bit(8) + bit(9)) + (bit(10) + bit(11)))
           + ((bit(12) + bit(13)) + (bit(14) + bit(15))))

(* a | b on words *)
OrW(a, b) == W(BitOr({a[1], b[1]}), BitOr({a[2], b[2]}))

(* uint32_t v << k for a value v < 2^16 *)
ShlW(v, k) ==
    IF k >= 16
    THEN W((v * Pow2(k - 16)) % Half, 0)
    ELSE LET p == v * Pow2(k) IN W((p \div Half) % Half, p % Half)

----------------------------------------------------------------------------
(* Characters and strings                                                  *)

NUL == "NUL"
SEGV == "SEGV"

Digits == <<"0", "1", "2", "3", "4", "5", "6", "7", "8", "9">>
HexDigits == <<"0", "1", "2", "3", "4", "5", "6", "7", "8", "9",
               "a", "b", "c", "d", "e", "f">>

IsDigit(c) == \E i \in 1..10 : Digits[i] = c
DigitVal(c) == (CHOOSE i \in 1..10 : Digits[i] = c) - 1
IsHexDigit(c) == \E i \in 1..16 : HexDigits[i] = c
HexVal(c) == (CHOOSE i \in 1..16 : HexDigits[i] = c) - 1

IntMax == 2147483647

(* for comparison: a conversion that clamps at INT_MAX, as strtol clamps  *)
(* at LONG_MAX, where std::stoi throws                                     *)
RECURSIVE StoiLoop_clamping(_, _, _)
StoiLoop_clamping(s, i, acc) ==
    IF i > Len(s) \/ ~IsDigit(s[i]) THEN [st |-> "ok", val |-> acc]
    ELSE LET d == DigitVal(s[i])
         IN  IF acc > IntMax \div 10 \/ (acc = IntMax \div 10 /\ d > IntMax % 10)
             THEN [st |-> "ok", val |-> IntMax]
             ELSE StoiLoop_clamping(s, i + 1, acc * 10 + d)

(* std::stoi: leading decimal digits of a text starting with a digit;     *)
(* a value above INT_MAX throws std::out_of_range.                         *)
RECURSIVE StoiLoop(_, _, _)
StoiLoop(s, i, acc) ==
    IF i > Len(s) \/ ~IsDigit(s[i]) THEN [st |-> "ok", val |-> acc]
    ELSE LET d == DigitVal(s[i])
         IN  IF acc > IntMax \div 10 \/ (acc = IntMax \div 10 /\ d > IntMax % 10)
             THEN [st |-> "out_of_range", val |-> 0]
             ELSE StoiLoop(s, i + 1, acc * 10 + d)

Stoi(s) ==
    IF s = <<>> \/ ~IsDigit(s[1]) THEN [st |-> "invalid_argument", val |-> 0]
    ELSE StoiLoop(s, 1, 0)

(* operator<<(std::hex, int) for a non-negative int *)
RECURSIVE HexOfInt(_)
HexOfInt(v) ==
    IF v < 16 THEN <<HexDigits[v + 1]>>
    ELSE Append(HexOfInt(v \div 16), HexDigits[(v % 16) + 1])

(* hexadecimal digits of a word, without leading zeros *)
HexOfWord(w) ==
    IF w[1] = 0 THEN HexOfInt(w[2])
    ELSE LET lo == HexOfInt(w[2])
             pad == [i \in 1..(4 - Len(lo)) |-> "0"]
         IN  HexOfInt(w[1]) \o pad \o lo

(* operator<<(void* ) : "0x" followed by the hexadecimal address *)
PtrToStr(w) == IF w = Zero32 THEN <<"0">> ELSE <<"0", "x">> \o HexOfWord(w)

(* std::stoul(str, nullptr, 0) with a 32-bit unsigned long: base from the  *)
(* prefix ("0x" hexadecimal, "0" octal, otherwise decimal); digits are     *)
(* consumed while valid; more than 32 bits throws std::out_of_range.       *)
RECURSIVE StoulLoop(_, _, _, _)
StoulLoop(s, i, base, acc) ==
    IF i > Len(s) \/ ~IsHexDigit(s[i]) \/ HexVal(s[i]) >= base
    THEN [st |-> "ok", val |-> acc]
    ELSE LET lo == acc[2] * base + HexVal(s[i])
             hi == acc[1] * base + (lo \div Half)
         IN  IF hi >= Half THEN [st |-> "out_of_range", val |-> Zero32]
             ELSE StoulLoop(s, i + 1, base, W(hi, lo % Half))

Stoul(s) ==
    IF Len(s) >= 3 /\ s[1] = "0" /\ s[2] = "x" /\ IsHexDigit(s[3])
    THEN StoulLoop(s, 3, 16, Zero32)
    ELSE IF Len(s) >= 1 /\ s[1] = "0" THEN StoulLoop(s, 2, 8, Zero32)
    ELSE IF Len(s) >= 1 /\ IsDigit(s[1]) THEN StoulLoop(s, 1, 10, Zero32)
    ELSE [st |-> "invalid_argument", val |-> Zero32]

----------------------------------------------------------------------------
(* ExpressionParser                                                        *)
(*                                                                         *)
(* m is the memory holding expression_: the n characters of the text, the  *)
(* terminating NUL, and whatever bytes follow it.  Rd reads one byte; a    *)
(* read past the mapped bytes is a segmentation fault.  Every result       *)
(* carries oob, which records whether a byte outside the n characters of   *)
(* the text has been read.                                                 *)

Rd(m, p) == IF p >= 0 /\ p < Len(m) THEN m[p + 1] ELSE SEGV

Outside(n, p) == p < 0 \/ p >= n

NoContent == [has |-> FALSE, str |-> <<>>]
Content(s) == [has |-> TRUE, str |-> s]

MkNode(t, c, subs) == [type |-> t, content |-> c, sub_expressions |-> subs]

Substr(m, n, pos, len) ==
    LET last == IF pos + len > n THEN n ELSE pos + len
    IN  [i \in 1..(last - pos) |-> m[pos + i]]

GetRidOfSpaces_keeping(text) == text

GetRidOfSpaces(text) == SelectSeq(text, LAMBDA c : c # " ")

RECURSIVE IsParBalanceLoop(_, _, _, _, _)
IsParBalanceLoop(m, cur, right, balance, correct) ==
    IF cur = right THEN correct
    ELSE LET c == Rd(m, cur)
             ok == IF balance < 0 THEN FALSE ELSE correct
         IN  IsParBalanceLoop(m, cur + 1, right,
                 IF c = "(" THEN balance + 1
                 ELSE IF c = ")" THEN balance - 1 ELSE balance,
                 ok)

IsParBalance(m, left, right) == IsParBalanceLoop(m, left, right, 0, TRUE)

GetTypeFromChar(c) ==
    IF c = "+" THEN "Plus"
    ELSE IF c = "-" THEN "Minus"
    ELSE IF c = "*" THEN "Product"
    ELSE "Default"

GetPriority(operation) ==
    IF operation \in {"Plus", "Minus"} THEN 0
    ELSE IF operation = "Product" THEN 1
    ELSE 2

IsOpChar(c) == c = "*" \/ c = "-" \/ c = "+"

(* the while loop of line 94: first position at or after cur that does not *)
(* hold an operator character                                              *)
RECURSIVE SkipRun(_, _)
SkipRun(m, cur) == IF IsOpChar(Rd(m, cur)) THEN SkipRun(m, cur + 1) ELSE cur

(* the for loop of FindArithmeticOperation; type = "Default" stands for    *)
(* std::nullopt                                                            *)
RECURSIVE FindLoop(_, _, _, _, _, _, _, _)
FindLoop(m, n, right, cur, type, pos, par_balance, oob) ==
    IF cur = right THEN [st |-> "ok", type |-> type, pos |-> pos, oob |-> oob]
    ELSE IF Rd(m, cur) = SEGV
    THEN [st |-> "segv", type |-> type, pos |-> pos, oob |-> TRUE]
    ELSE
      LET c == Rd(m, cur)
          o1 == oob \/ Outside(n, cur)
          bal == IF c = "(" THEN par_balance + 1
                 ELSE IF c = ")" THEN par_balance - 1 ELSE par_balance
          current_type == GetTypeFromChar(c)
      IN  IF bal # 0 THEN FindLoop(m, n, right, cur + 1, type, pos, bal, o1)
          ELSE IF current_type = "Default"
          THEN FindLoop(m, n, right, cur + 1, type, pos, bal, o1)
          ELSE IF type = "Default"
          THEN FindLoop(m, n, right, cur + 1, current_type, cur, bal, o1)
          ELSE
            LET lower == GetPriority(current_type) <= GetPriority(type)
                take == lower /\ Rd(m, cur - 1) # "*"
                stop == SkipRun(m, cur + 1)
                o2 == o1 \/ (lower /\ Outside(n, cur - 1))
                         \/ (\E q \in (cur + 1)..stop : Outside(n, q))
            IN  IF Rd(m, stop) = SEGV
                THEN [st |-> "segv", type |-> type, pos |-> pos, oob |-> TRUE]
                ELSE FindLoop(m, n, right, stop + 1,
                              IF take THEN current_type ELSE type,
                              IF take THEN cur ELSE pos, bal, o2)

FindArithmeticOperation(m, n, left, right) ==
    FindLoop(m, n, right, left, "Default", left, 0, FALSE)

IsConstant(m, left) == IsDigit(Rd(m, left))

IsFunction(m, left, right) == \E q \in left..(right - 1) : Rd(m, q) = "("

(* std::find(left, right, '(') *)
FindPar(m, left, right) ==
    IF \E q \in left..(right - 1) : Rd(m, q) = "("
    THEN CHOOSE q \in left..(right - 1) :
             Rd(m, q) = "(" /\ \A k \in left..(q - 1) : Rd(m, k) # "("
    ELSE right

GetFunctionName(m, n, left, right) == Substr(m, n, left, FindPar(m, left, right) - left)

(* for comparison: a scan that stops at every comma, whatever the balance *)
RECURSIVE ParamScan_flat(_, _, _)
ParamScan_flat(m, cur, pron_balance) ==
    LET c == Rd(m, cur)
    IN  IF c = SEGV THEN [why |-> "segv", at |-> cur]
        ELSE IF c = "," THEN [why |-> "comma", at |-> cur]
        ELSE LET bal == IF c = "(" THEN pron_balance + 1
                        ELSE IF c = ")" THEN pron_balance - 1 ELSE pron_balance
             IN  IF bal = -1 /\ c = ")" THEN [why |-> "close", at |-> cur]
                 ELSE ParamScan_flat(m, cur + 1, bal)

(* the for loop of line 170; returns where it stopped and why *)
RECURSIVE ParamScan(_, _, _)
ParamScan(m, cur, pron_balance) ==
    LET c == Rd(m, cur)
    IN  IF c = SEGV THEN [why |-> "segv", at |-> cur]
        ELSE IF ~(c # "," \/ pron_balance > 0) THEN [why |-> "comma", at |-> cur]
        ELSE LET bal == IF c = "(" THEN pron_balance + 1
                        ELSE IF c = ")" THEN pron_balance - 1 ELSE pron_balance
             IN  IF bal = -1 /\ c = ")" THEN [why |-> "close", at |-> cur]
                 ELSE ParamScan(m, cur + 1, bal)

(* the while loop of line 167 *)
RECURSIVE ParamLoop(_, _, _, _, _, _, _)
ParamLoop(m, n, right, current_left, current_right, answer, oob) ==
    IF current_right = right
    THEN [st |-> "assert", answer |-> answer, oob |-> oob]
    ELSE LET r == ParamScan(m, current_right, 0)
             o1 == oob \/ (\E q \in current_right..r.at : Outside(n, q))
         IN  IF r.why = "segv"
             THEN [st |-> "segv", answer |-> answer, oob |-> TRUE]
             ELSE IF r.why = "close"
             THEN [st |-> "ok", answer |-> Append(answer, <<current_left, r.at>>),
                   oob |-> o1]
             ELSE ParamLoop(m, n, right, r.at + 1, r.at + 1,
                            Append(answer, <<current_left, r.at>>), o1)

RECURSIVE FirstPar(_, _)
FirstPar(m, cur) ==
    IF Rd(m, cur) = "(" \/ Rd(m, cur) = SEGV THEN cur ELSE FirstPar(m, cur + 1)

(* for comparison: a scan that returns no range for an empty list *)
GetFunctionParameters_dropping_empty(m, n, left, right) ==
    LET open == FirstPar(m, left)
    IN  IF Rd(m, open) = SEGV
        THEN [st |-> "segv", answer |-> <<>>, oob |-> TRUE]
        ELSE IF Rd(m, open + 1) = ")"
        THEN [st |-> "ok", answer |-> <<>>, oob |-> \E q \in left..(open + 1) : Outside(n, q)]
        ELSE ParamLoop(m, n, right, open + 1, open + 1, <<>>,
                       \E q \in left..open : Outside(n, q))

GetFunctionParameters(m, n, left, right) ==
    LET open == FirstPar(m, left)
    IN  IF Rd(m, open) = SEGV
        THEN [st |-> "segv", answer |-> <<>>, oob |-> TRUE]
        ELSE ParamLoop(m, n, right, open + 1, open + 1, <<>>,
                       \E q \in left..open : Outside(n, q))

StripLoop_keeping(m, n, left, right, surplus_pars, oob) ==
    [st |-> "ok", surplus |-> surplus_pars, oob |-> oob \/ Outside(n, left)]

(* the while loop of ParseExpression (lines 106-111): the number of        *)
(* surplus parenthesis pairs.  std::for_each over a range whose first      *)
(* iterator is behind its last never meets the end and leaves the mapping. *)
RECURSIVE StripLoop(_, _, _, _, _, _)
StripLoop(m, n, left, right, surplus_pars, oob) ==
    LET a == left + surplus_pars
        b == right - 1 - surplus_pars
        o1 == oob \/ Outside(n, a)
    IN  IF Rd(m, a) # "(" THEN [st |-> "ok", surplus |-> surplus_pars, oob |-> o1]
        ELSE IF Rd(m, b) # ")"
        THEN [st |-> "ok", surplus |-> surplus_pars, oob |-> o1 \/ Outside(n, b)]
        ELSE IF a + 1 > b
        THEN [st |-> "segv", surplus |-> surplus_pars, oob |-> TRUE]
        ELSE IF ~IsParBalance(m, a + 1, b)
        THEN [st |-> "ok", surplus |-> surplus_pars, oob |-> o1 \/ Outside(n, b)]
        ELSE StripLoop(m, n, left, right, surplus_pars + 1, o1 \/ Outside(n, b))

DefaultNode == MkNode("Default", NoContent, <<>>)

ParseConstant(m, n, left, right) ==
    LET dec_view == Substr(m, n, left, right - left)
        v == Stoi(dec_view)
    IN  IF v.st # "ok"
        THEN [st |-> v.st, node |-> MkNode("Constant", NoContent, <<>>)]
        ELSE [st |-> "ok",
              node |-> MkNode("Constant", Content(<<"0", "x">> \o HexOfInt(v.val)), <<>>)]

ParseVariable_no_zero(m, n, left, right) ==
    MkNode("Variable", Content(Substr(m, n, left, right - left)), <<>>)

ParseVariable(m, n, left, right) ==
    IF right - left < 1
    THEN MkNode("Constant", Content(<<"0", "x", "0">>), <<>>)
    ELSE MkNode("Variable", Content(Substr(m, n, left, right - left)), <<>>)

RECURSIVE ParseExpression(_, _, _, _)
RECURSIVE ParseParams(_, _, _, _, _, _)

(* the loop of ParseFunction (lines 221-225) over the parameter ranges *)
ParseParams(m, n, params, k, subs, oob) ==
    IF k > Len(params) THEN [st |-> "ok", subs |-> subs, oob |-> oob]
    ELSE LET r == ParseExpression(m, n, params[k][1], params[k][2])
         IN  IF r.st # "ok"
             THEN [st |-> r.st, subs |-> Append(subs, r.node), oob |-> oob \/ r.oob]
             ELSE ParseParams(m, n, params, k + 1, Append(subs, r.node), oob \/ r.oob)

ParseFunction(m, n, left, right) ==
    LET name == Content(GetFunctionName(m, n, left, right))
        ps == GetFunctionParameters(m, n, left, right)
    IN  IF ps.st # "ok"
        THEN [st |-> ps.st, node |-> MkNode("Function", name, <<>>), oob |-> ps.oob]
        ELSE LET r == ParseParams(m, n, ps.answer, 1, <<>>, ps.oob)
             IN  [st |-> r.st, node |-> MkNode("Function", name, r.subs), oob |-> r.oob]

(* for comparison: a parser that leaves the operator character as the     *)
(* content of an arithmetic node                                           *)
ParseArithmetic_with_content(m, n, left, right, type, pos) ==
    LET l == ParseExpression(m, n, left, pos)
    IN  IF l.st # "ok"
        THEN [st |-> l.st, node |-> MkNode(type, NoContent, <<l.node, DefaultNode>>),
              oob |-> l.oob]
        ELSE LET r == ParseExpression(m, n, pos + 1, right)
             IN  [st |-> r.st, node |-> MkNode(type, Content(<<Rd(m, pos)>>), <<l.node, r.node>>),
                  oob |-> l.oob \/ r.oob]

ParseArithmetic(m, n, left, right, type, pos) ==
    LET l == ParseExpression(m, n, left, pos)
    IN  IF l.st # "ok"
        THEN [st |-> l.st, node |-> MkNode(type, NoContent, <<l.node, DefaultNode>>),
              oob |-> l.oob]
        ELSE LET r == ParseExpression(m, n, pos + 1, right)
             IN  [st |-> r.st, node |-> MkNode(type, NoContent, <<l.node, r.node>>),
                  oob |-> l.oob \/ r.oob]

ParseExpression(m, n, left0, right0) ==
    LET sp == StripLoop(m, n, left0, right0, 0, FALSE)
        left == left0 + sp.surplus
        right == right0 - sp.surplus
    IN  IF sp.st # "ok" THEN [st |-> sp.st, node |-> DefaultNode, oob |-> sp.oob]
        ELSE
          LET f == FindArithmeticOperation(m, n, left, right)
          IN  IF f.st # "ok" THEN [st |-> f.st, node |-> DefaultNode, oob |-> TRUE]
              ELSE IF f.type # "Default"
              THEN LET r == ParseArithmetic(m, n, left, right, f.type, f.pos)
                   IN  [st |-> r.st, node |-> r.node, oob |-> sp.oob \/ f.oob \/ r.oob]
              ELSE IF IsConstant(m, left)
              THEN LET r == ParseConstant(m, n, left, right)
                   IN  [st |-> r.st, node |-> r.node,
                        oob |-> sp.oob \/ f.oob \/ Outside(n, left)]
              ELSE IF IsFunction(m, left, right)
              THEN LET r == ParseFunction(m, n, left, right)
                   IN  [st |-> r.st, node |-> r.node,
                        oob |-> sp.oob \/ f.oob \/ r.oob \/ Outside(n, left)]
              ELSE [st |-> "ok", node |-> ParseVariable(m, n, left, right),
                    oob |-> sp.oob \/ f.oob \/ Outside(n, left)]

(* the constructor: strip the spaces, then parse the whole text; tail is   *)
(* the content of the bytes that follow the terminating NUL                *)
ExpressionParser(expression, tail) ==
    LET expression_ == GetRidOfSpaces(expression)
    IN  ParseExpression(expression_ \o <<NUL>> \o tail, Len(expression_),
                        0, Len(expression_))

----------------------------------------------------------------------------
(* ARM_JIT_Compiler: the tree walk that fills instructions_                *)

R0 == 0
R1 == 1
R2 == 2
R3 == 3
R4 == 4
LR == 5
PC == 6

NoReg == -1

Instr(op, reg_a, reg_b, str) == [op |-> op, reg1 |-> reg_a, reg2 |-> reg_b, str |-> str]

(* address_map_.at(name) streamed into a std::stringstream *)
Known(address_map, name) == name \in DOMAIN address_map

handle_const(current, ins) ==
    ins \o << Instr("LDR_FROM_NEXT", R0, NoReg, current.content),
              Instr("WORD_DECL", NoReg, NoReg, current.content),
              Instr("PUSH_REG", R0, NoReg, NoContent) >>

(* for comparison: an emitter that pushes the address of a variable        *)
(* without loading from it                                                 *)
handle_variable_address_only(address_map, current, ins) ==
    IF ~Known(address_map, current.content.str)
    THEN [st |-> "map_at", ins |-> ins]
    ELSE LET address_str == Content(PtrToStr(address_map[current.content.str]))
         IN  [st |-> "ok",
              ins |-> ins \o << Instr("LDR_FROM_NEXT", R0, NoReg, address_str),
                                Instr("WORD_DECL", NoReg, NoReg, address_str),
                                Instr("PUSH_REG", R0, NoReg, NoContent) >>]

handle_variable(address_map, current, ins) ==
    IF ~Known(address_map, current.content.str)
    THEN [st |-> "map_at", ins |-> ins]
    ELSE LET address_str == Content(PtrToStr(address_map[current.content.str]))
         IN  [st |-> "ok",
              ins |-> ins \o << Instr("LDR_FROM_NEXT", R0, NoReg, address_str),
                                Instr("WORD_DECL", NoReg, NoReg, address_str),
                                Instr("LDR_REG", R0, R0, NoContent),
                                Instr("PUSH_REG", R0, NoReg, NoContent) >>]

ArithTail_one_pop(op) ==
    << Instr("POP_REG", R1, NoReg, NoContent),
       Instr(op, R0, R1, NoContent),
       Instr("PUSH_REG", R0, NoReg, NoContent) >>

(* the three instructions that close handle_plus, handle_minus and         *)
(* handle_product                                                          *)
ArithTail(op) ==
    << Instr("POP_MULT_REG", R0, R1, NoContent),
       Instr(op, R0, R1, NoContent),
       Instr("PUSH_REG", R0, NoReg, NoContent) >>

PopArguments_ascending(arguments_number) ==
    [k \in 1..arguments_number |-> Instr("POP_REG", R0 + k - 1, NoReg, NoContent)]

(* the loop of lines 513-520: POP_REG R(i-1) for i = arguments_number .. 1 *)
PopArguments(arguments_number) ==
    [k \in 1..arguments_number |->
        Instr("POP_REG", R0 + (arguments_number - k + 1) - 1, NoReg, NoContent)]

RECURSIVE compile_(_, _, _)
RECURSIVE CompileChildren(_, _, _, _)

(* the two compile_ calls of an arithmetic handler, or the std::for_each   *)
(* of handle_function, over sub_expressions                                *)
CompileChildren(address_map, subs, k, ins) ==
    IF k > Len(subs) THEN [st |-> "ok", ins |-> ins]
    ELSE LET r == compile_(address_map, subs[k], ins)
         IN  IF r.st # "ok" THEN r
             ELSE CompileChildren(address_map, subs, k + 1, r.ins)

handle_plus(address_map, current, ins) ==
    LET r == CompileChildren(address_map, SubSeq(current.sub_expressions, 1, 2), 1, ins)
    IN  IF r.st # "ok" THEN r ELSE [st |-> "ok", ins |-> r.ins \o ArithTail("ADD")]

handle_minus(address_map, current, ins) ==
    LET r == CompileChildren(address_map, SubSeq(current.sub_expressions, 1, 2), 1, ins)
    IN  IF r.st # "ok" THEN r ELSE [st |-> "ok", ins |-> r.ins \o ArithTail("SUB")]

handle_product(address_map, current, ins) ==
    LET r == CompileChildren(address_map, SubSeq(current.sub_expressions, 1, 2), 1, ins)
    IN  IF r.st # "ok" THEN r ELSE [st |-> "ok", ins |-> r.ins \o ArithTail("MUL")]

handle_function(address_map, current, ins) ==
    LET r == CompileChildren(address_map, current.sub_expressions, 1, ins)
        arguments_number == Len(current.sub_expressions)
    IN  IF r.st # "ok" THEN r
        ELSE IF ~(arguments_number > 0) THEN [st |-> "assert", ins |-> r.ins]
        ELSE IF ~Known(address_map, current.content.str)
        THEN [st |-> "map_at", ins |-> r.ins]
        ELSE LET content == Content(PtrToStr(address_map[current.content.str]))
             IN  [st |-> "ok",
                  ins |-> r.ins \o PopArguments(arguments_number)
                          \o << Instr("LDR_FROM_NEXT", R4, NoReg, content),
                                Instr("WORD_DECL", NoReg, NoReg, content),
                                Instr("BLX", R4, NoReg, NoContent),
                                Instr("PUSH_REG", R0, NoReg, NoContent) >>]

compile_(address_map, current, ins) ==
    IF current.type = "Constant" THEN [st |-> "ok", ins |-> handle_const(current, ins)]
    ELSE IF current.type = "Variable" THEN handle_variable(address_map, current, ins)
    ELSE IF current.type = "Plus" THEN handle_plus(address_map, current, ins)
    ELSE IF current.type = "Minus" THEN handle_minus(address_map, current, ins)
    ELSE IF current.type = "Product" THEN handle_product(address_map, current, ins)
    ELSE IF current.type = "Function" THEN handle_function(address_map, current, ins)
    ELSE [st |-> "assert", ins |-> ins]

(* for comparison: a prologue that saves r4 before lr *)
add_header_r4_first(ins) ==
    ins \o << Instr("PUSH_REG", R4, NoReg, NoContent),
              Instr("PUSH_REG", LR, NoReg, NoContent) >>

add_header(ins) ==
    ins \o << Instr("PUSH_REG", LR, NoReg, NoContent),
              Instr("PUSH_REG", R4, NoReg, NoContent) >>

(* for comparison: an epilogue that restores r4 and returns, leaving the  *)
(* result on the stack                                                     *)
add_footer_return_only(ins) ==
    ins \o << Instr("POP_MULT_REG", R4, PC, NoContent) >>

add_footer(ins) ==
    ins \o << Instr("POP_REG", R0, NoReg, NoContent),
              Instr("POP_MULT_REG", R4, PC, NoContent) >>

compile(address_map, parse_tree, ins) ==
    LET r == compile_(address_map, parse_tree, add_header(ins))
    IN  IF r.st # "ok" THEN r ELSE [st |-> "ok", ins |-> add_footer(r.ins)]

----------------------------------------------------------------------------
(* ARM_JIT_Compiler::GetCompiledBinary: intermediates to 32-bit words      *)

RegOrZero(r) == IF r = NoReg THEN 0 ELSE r

Or5(a, b, c, d, e) ==
    W(BitOr({a[1], b[1], c[1], d[1], e[1]}), BitOr({a[2], b[2], c[2], d[2], e[2]}))

(* for comparison: an addition whose Rm field carries reg1 *)
EncodeADD_with_rm(reg1, reg2) ==
    Or5(OrW(ShlW(reg1, 12), SmallW(reg1)), ShlW(reg2, 16), ShlW(0, 20), ShlW(4, 21),
        ShlW(14, 28))

EncodeADD(reg1, reg2) ==
    Or5(ShlW(reg1, 12), ShlW(reg2, 16), ShlW(0, 20), ShlW(4, 21), ShlW(14, 28))

(* for comparison: the subtraction with its operands exchanged,           *)
(* sub reg1, reg1, reg2                                                    *)
EncodeSUB_exchanged(reg1, reg2) ==
    Or5(OrW(ShlW(reg1, 12), SmallW(reg2)), ShlW(reg1, 16), ShlW(0, 20), ShlW(2, 21),
        ShlW(14, 28))

EncodeSUB(reg1, reg2) ==
    Or5(ShlW(reg1, 12), ShlW(reg2, 16), ShlW(0, 20), ShlW(2, 21), ShlW(14, 28))

EncodeMUL(reg1, reg2) ==
    Or5(SmallW(reg2), ShlW(9, 4), ShlW(reg1, 8), ShlW(reg1, 16), ShlW(14, 28))

PushRegTable ==
    << W(\hE52D, \h0004), W(\hE52D, \h1004), W(\hE52D, \h2004),
       W(\hE52D, \h3004), W(\hE52D, \h4004), W(\hE52D, \hE004) >>

PushMultTable == << W(\hE92D, \h0003), W(\hE92D, \h0007), W(\hE92D, \h000F) >>

PopRegTable ==
    << W(\hE49D, \h0004), W(\hE49D, \h1004), W(\hE49D, \h2004),
       W(\hE49D, \h3004), W(\hE49D, \h4004) >>

PopMultTable == << W(\hE8BD, \h0003), W(\hE8BD, \h0007), W(\hE8BD, \h000F) >>

(* one iteration of the loop: the words appended for one intermediate, or  *)
(* the failure that ends the translation                                   *)
Translate(i) ==
    LET reg1 == RegOrZero(i.reg1)
        reg2 == RegOrZero(i.reg2)
    IN  CASE i.op = "ADD" -> [st |-> "ok", words |-> <<EncodeADD(reg1, reg2)>>]
          [] i.op = "SUB" -> [st |-> "ok", words |-> <<EncodeSUB(reg1, reg2)>>]
          [] i.op = "MUL" -> [st |-> "ok", words |-> <<EncodeMUL(reg1, reg2)>>]
          [] i.op = "BLX" ->
                IF reg1 = 4 THEN [st |-> "ok", words |-> <<W(\hE12F, \hFF34)>>]
                ELSE [st |-> "assert", words |-> <<>>]
          [] i.op = "LDR_FROM_NEXT" ->
                LET first == IF reg1 = 0 THEN W(\hE59F, \h0000) ELSE W(\hE59F, \h4000)
                    v == Stoul(i.str.str)
                IN  IF v.st # "ok"
                    THEN [st |-> v.st, words |-> <<first, W(\hEA00, \h0000)>>]
                    ELSE [st |-> "ok", words |-> <<first, W(\hEA00, \h0000), v.val>>]
          [] i.op = "LDR_REG" ->
                IF reg1 = 0 THEN [st |-> "ok", words |-> <<W(\hE590, \h0000)>>]
                ELSE IF reg1 = 4 THEN [st |-> "ok", words |-> <<W(\hE594, \h4000)>>]
                ELSE [st |-> "assert", words |-> <<>>]
          [] i.op = "PUSH_REG" ->
                IF reg1 \in 0..5 THEN [st |-> "ok", words |-> <<PushRegTable[reg1 + 1]>>]
                ELSE [st |-> "assert", words |-> <<>>]
          [] i.op = "PUSH_MULT_REG" ->
                IF reg2 \in 1..3 THEN [st |-> "ok", words |-> <<PushMultTable[reg2]>>]
                ELSE [st |-> "assert", words |-> <<>>]
          [] i.op = "WORD_DECL" -> [st |-> "ok", words |-> <<>>]
          [] i.op = "POP_REG" ->
                IF reg1 \in 0..4 THEN [st |-> "ok", words |-> <<PopRegTable[reg1 + 1]>>]
                ELSE [st |-> "assert", words |-> <<>>]
          [] i.op = "POP_MULT_REG" ->
                IF reg2 \in 1..3 THEN [st |-> "ok", words |-> <<PopMultTable[reg2]>>]
                ELSE IF reg2 = 6 /\ reg1 = 4
                THEN [st |-> "ok", words |-> <<W(\hE8BD, \h8010)>>]
                ELSE [st |-> "assert", words |-> <<>>]
          [] OTHER -> [st |-> "assert", words |-> <<>>]

(* the words appended by the iterations lo..hi of the loop over           *)
(* instructions_, t[k] being the outcome of iteration k                    *)
RECURSIVE TranslateLoop(_, _, _)
TranslateLoop(t, lo, hi) ==
    IF lo > hi THEN <<>>
    ELSE IF lo = hi THEN t[lo].words
    ELSE LET mid == (lo + hi) \div 2
         IN  TranslateLoop(t, lo, mid) \o TranslateLoop(t, mid + 1, hi)

(* the loop runs to the end of instructions_, or to the first iteration    *)
(* that fails                                                              *)
GetCompiledBinary(instructions) ==
    LET all == 1..Len(instructions)
        t == [k \in all |-> Translate(instructions[k])]
        bad == {k \in all : t[k].st # "ok"}
        stop == IF bad = {} THEN Len(instructions)
                ELSE CHOOSE k \in bad : \A j \in bad : k <= j
    IN  [st |-> IF bad = {} THEN "ok" ELSE t[stop].st,
         binary |-> TranslateLoop(t, 1, stop)]

----------------------------------------------------------------------------
(* The caller's world: symbols, the externs array, the output buffer       *)

Name(str) == Content(str)
NullName == NoContent

VarA == W(2, \h0000)
VarB == W(2, \h0004)
VarC == W(2, \h0008)
VarD == W(2, \h000C)
VarX == W(2, \h0010)

FnF == W(3, \h0000)
FnG == W(3, \h0100)
FnH == W(3, \h0200)
FnK == W(3, \h0300)
FnAdd == W(3, \h0400)
FnMul == W(3, \h0500)

VarAddrs == {VarA, VarB, VarC, VarD, VarX}
FuncAddrs == {FnF, FnG, FnH, FnK, FnAdd, FnMul}

Sentinel == [name |-> NullName, pointer |-> Zero32]

MainExterns ==
    << [name |-> Name(<<"a">>), pointer |-> VarA],
       [name |-> Name(<<"b">>), pointer |-> VarB],
       [name |-> Name(<<"c">>), pointer |-> VarC],
       [name |-> Name(<<"d">>), pointer |-> VarD],
       [name |-> Name(<<"x">>), pointer |-> VarX],
       [name |-> Name(<<"f">>), pointer |-> FnF],
       [name |-> Name(<<"g">>), pointer |-> FnG],
       [name |-> Name(<<"h">>), pointer |-> FnH],
       [name |-> Name(<<"k">>), pointer |-> FnK],
       [name |-> Name(<<"a", "d", "d">>), pointer |-> FnAdd],
       [name |-> Name(<<"m", "u", "l">>), pointer |-> FnMul],
       Sentinel >>

EmptyExterns == << Sentinel >>

(* an array that names a twice *)
DuplicateExterns ==
    << [name |-> Name(<<"a">>), pointer |-> VarA],
       [name |-> Name(<<"b">>), pointer |-> VarB],
       [name |-> Name(<<"c">>), pointer |-> VarC],
       [name |-> Name(<<"x">>), pointer |-> VarX],
       [name |-> Name(<<"a", "d", "d">>), pointer |-> FnAdd],
       [name |-> Name(<<"a">>), pointer |-> VarD],
       Sentinel >>

(* an array with a record, before the record {0, 0}, whose pointer is null *)
NullPointerExterns ==
    << [name |-> Name(<<"a">>), pointer |-> VarA],
       [name |-> Name(<<"z">>), pointer |-> Zero32],
       [name |-> Name(<<"b">>), pointer |-> VarB],
       Sentinel >>

(* the loop of lines 790-793 of jit_compile_expression_to_arm: it stops at *)
(* the first record whose name or pointer is null; address_map[name] =     *)
(* pointer leaves each name with the pointer of its last record            *)
IngestLoop(externs, stop) ==
    LET names == {externs[i].name.str : i \in 1..(stop - 1)}
        last(nm) == CHOOSE i \in 1..(stop - 1) :
                        /\ externs[i].name.str = nm
                        /\ \A j \in (i + 1)..(stop - 1) : externs[j].name.str # nm
    IN  [nm \in names |-> externs[last(nm)].pointer]

EmptyMap == [k \in {} |-> Zero32]

(* the first record that ends the loop; the array of a caller ends with    *)
(* the record {0, 0}                                                       *)
Ingest(externs) ==
    IngestLoop(externs,
               CHOOSE current \in 1..Len(externs) :
                   /\ ~(externs[current].pointer # Zero32 /\ externs[current].name.has)
                   /\ \A i \in 1..(current - 1) :
                         externs[i].pointer # Zero32 /\ externs[i].name.has)

----------------------------------------------------------------------------
(* The A32 processor that runs the emitted words.  Registers are r0..r15   *)
(* (13 = sp, 14 = lr, 15 = pc).  The words of out_buffer sit at BufBase,   *)
(* BufBase + 4, ...; mem holds the variables and the words pushed on the   *)
(* full-descending stack.                                                  *)

SPr == 13
LRr == 14
PCr == 15

BufBase == W(1, 0)

Four == SmallW(4)
Eight == SmallW(8)

CodeIndex(out, addr) ==
    LET off == SubW(addr, BufBase)
    IN  IF off[1] = 0 /\ off[2] % 4 = 0 /\ off[2] \div 4 < Len(out)
        THEN off[2] \div 4 ELSE -1

InCode(out, addr) == CodeIndex(out, addr) >= 0

Mapped(out, mem, addr) == InCode(out, addr) \/ addr \in DOMAIN mem

Load(out, mem, addr) ==
    IF InCode(out, addr) THEN out[CodeIndex(out, addr) + 1] ELSE mem[addr]

Store(mem, addr, val) ==
    (addr :> val) @@ [k \in (DOMAIN mem) \ {addr} |-> mem[k]]

(* for comparison: a processor whose pc reads as the address of the next  *)
(* instruction                                                             *)
RegRead_next(r, k) == IF k = PCr THEN AddW(r[PCr], Four) ELSE r[k]

(* the value an instruction at address pc reads from register k *)
RegRead(r, k) == IF k = PCr THEN AddW(r[PCr], Eight) ELSE r[k]

Bit(list, k) == HasBit(list, k)

RECURSIVE LoadMultiple_descending(_, _, _, _, _, _)
LoadMultiple_descending(out, mem, r, list, k, addr) ==
    IF k > 15 THEN [ok |-> TRUE, r |-> [r EXCEPT ![SPr] = addr]]
    ELSE IF ~HasBit(list, 15 - k) THEN LoadMultiple_descending(out, mem, r, list, k + 1, addr)
    ELSE IF ~Mapped(out, mem, addr) THEN [ok |-> FALSE, r |-> r]
    ELSE LoadMultiple_descending(out, mem, [r EXCEPT ![15 - k] = Load(out, mem, addr)],
                                 list, k + 1, AddW(addr, Four))

(* LDMIA sp!, {list}: registers in ascending order from ascending addresses *)
RECURSIVE LoadMultiple(_, _, _, _, _, _)
LoadMultiple(out, mem, r, list, k, addr) ==
    IF k > 15 THEN [ok |-> TRUE, r |-> [r EXCEPT ![SPr] = addr]]
    ELSE IF ~Bit(list, k) THEN LoadMultiple(out, mem, r, list, k + 1, addr)
    ELSE IF ~Mapped(out, mem, addr) THEN [ok |-> FALSE, r |-> r]
    ELSE LoadMultiple(out, mem, [r EXCEPT ![k] = Load(out, mem, addr)],
                      list, k + 1, AddW(addr, Four))

Fault(r, mem) == [st |-> "fault", r |-> r, mem |-> mem]
Running(r, mem) == [st |-> "running", r |-> r, mem |-> mem]

(* one instruction: w is the word at r[PCr]; next is the address after it *)
Execute(out, mem, r, w) ==
    LET hi == w[1]
        lo == w[2]
        next == AddW(r[PCr], Four)
        fn == hi % 16
        fd == lo \div 4096
        fm == lo % 16
    IN  CASE hi = \hE52D /\ lo % 4096 = 4 ->        \* str Rd, [sp, #-4]!   (push {Rd})
               LET sp == SubW(r[SPr], Four)
               IN  Running([r EXCEPT ![SPr] = sp, ![PCr] = next],
                           Store(mem, sp, RegRead(r, fd)))
          [] hi = \hE49D /\ lo % 4096 = 4 ->        \* ldr Rd, [sp], #4     (pop {Rd})
               IF ~Mapped(out, mem, r[SPr]) THEN Fault(r, mem)
               ELSE LET v == Load(out, mem, r[SPr])
                        r1 == [r EXCEPT ![SPr] = AddW(r[SPr], Four), ![PCr] = next]
                    IN  Running([r1 EXCEPT ![fd] = v], mem)
          [] hi = \hE8BD ->                         \* ldmia sp!, {list}    (pop {list})
               LET l == LoadMultiple(out, mem, [r EXCEPT ![PCr] = next], lo, 0, r[SPr])
               IN  IF l.ok THEN Running(l.r, mem) ELSE Fault(r, mem)
          [] hi \div 16 = \hE59 ->                  \* ldr Rd, [Rn, #imm12]
               LET addr == AddW(RegRead(r, fn), SmallW(lo % 4096))
               IN  IF ~Mapped(out, mem, addr) THEN Fault(r, mem)
                   ELSE Running([[r EXCEPT ![PCr] = next] EXCEPT ![fd] = Load(out, mem, addr)],
                                mem)
          [] hi \div 256 = \hEA /\ hi % 256 < 128 -> \* b  pc + 8 + 4 * imm24
               Running([r EXCEPT ![PCr] =
                           AddW(AddW(r[PCr], Eight),
                                MulW(Four, W(hi % 256, lo)))], mem)
          [] hi \div 16 = \hE08 /\ (lo % 4096) \div 16 = 0 ->   \* add Rd, Rn, Rm
               Running([[r EXCEPT ![PCr] = next]
                           EXCEPT ![fd] = AddW(RegRead(r, fn), RegRead(r, fm))], mem)
          [] hi \div 16 = \hE04 /\ (lo % 4096) \div 16 = 0 ->   \* sub Rd, Rn, Rm
               Running([[r EXCEPT ![PCr] = next]
                           EXCEPT ![fd] = SubW(RegRead(r, fn), RegRead(r, fm))], mem)
          [] hi \div 16 = \hE00 /\ fd = 0 /\ (lo \div 16) % 16 = 9 ->  \* mul Rd, Rm, Rs (Rd in bits 19:16)
               Running([[r EXCEPT ![PCr] = next]
                           EXCEPT ![fn] = MulW(RegRead(r, fm),
                                               RegRead(r, (lo \div 256) % 16))], mem)
          [] hi = \hE12F /\ lo \div 16 = \hFF3 ->   \* blx Rm
               Running([r EXCEPT ![LRr] = next, ![PCr] = RegRead(r, fm)], mem)
          [] OTHER -> Fault(r, mem)

(* the functions behind the function symbols: f, g, h, k take 1, 2, 3, 4   *)
(* arguments and return 1 + r0 + 2 r1 + 3 r2 + 4 r3 over their arguments;  *)
(* add and mul are the two-argument functions of the end-to-end scenarios  *)
Weighted(args) ==
    LET lo(i) == IF i <= Len(args) THEN i * args[i][2] ELSE 0
        hi(i) == IF i <= Len(args) THEN i * args[i][1] ELSE 0
        los == 1 + lo(1) + lo(2) + lo(3) + lo(4)
        his == hi(1) + hi(2) + hi(3) + hi(4) + (los \div Half)
    IN  W(his % Half, los % Half)

Arity(fn) ==
    CASE fn = FnF -> 1 [] fn = FnG -> 2 [] fn = FnH -> 3 [] fn = FnK -> 4
      [] fn = FnAdd -> 2 [] fn = FnMul -> 2

Apply(fn, args) ==
    CASE fn = FnAdd -> AddW(args[1], args[2])
      [] fn = FnMul -> MulW(args[1], args[2])
      [] OTHER -> Weighted(args)

----------------------------------------------------------------------------
(* Inputs                                                                  *)

MaxLen == 4
MaxNodes == 5

Alphabet == {"2", "a", "f", "+", "-", "*", "(", ")"}

GeneratedTexts == UNION { [1..k -> Alphabet] : k \in 0..MaxLen }

ScenarioTexts ==
    { <<"2", "+", "3">>,
      <<"-", "1", "0">>,
      <<"2", "*", "3", "+", "4">>,
      <<"2", "+", "3", "*", "4">>,
      <<"(", "2", "+", "3", ")", "*", "4">>,
      <<"-", "1", "0", "+", "3">>,
      <<"x", "*", "2">>,
      <<"a", "d", "d", "(", "2", ",", "3", ")">>,
      <<"a", "d", "d", "(", "m", "u", "l", "(", "2", ",", "3", ")", ",", "4", ")">>,
      <<"1", "+", "2", "*", "(", "3", "+", "4", ")">>,
      <<"a", "+", "b", "*", "(", "c", "+", "d", ")">>,
      <<"5", "-", "-", "3">>,
      <<"-", "+", "5">>,
      <<"a", "+", "b", "-", "(", "c", "-", "d", ")">>,
      <<"a", "+", "b", "*", "c">>,
      <<"a", "-", "b", "-", "c">>,
      <<" ", "2", " ", "+", " ", "3", " ">>,
      <<"(", " ", "2", "+", "3", " ", ")", " ", "*", " ", "x">>,
      <<"u">>,
      <<"1", "+", "u">>,
      <<"u", "(", "1", ")">>,
      <<"u", "(", "1", ",", "a", ")">>,
      <<"f", "(", "u", ")">>,
      <<"2", "*", "u", "(", "a", ",", "b", ")">>,
      <<"k", "(", "1", ",", "2", ",", "3", ",", "4", ")">>,
      <<"f", "(", "1", ",", "2", ",", "3", ",", "4", ",", "5", ")">>,
      <<"f", "(", "1", ",", "2", ",", "3", ",", "4", ",", "5", ",", "6", ")">>,
      <<"g", "(", "a", ",", "b", ")">>,
      <<"f", "(", "g", "(", "a", ",", "b", ")", ",", "c", ")">>,
      <<"h", "(", "a", ",", "b", ",", "c", ")">>,
      <<"0">>,
      <<"1", "0">>,
      <<"2", "1", "4", "7", "4", "8", "3", "6", "4", "7">>,
      <<"2", "1", "4", "7", "4", "8", "3", "6", "4", "8">>,
      <<"4", "2", "9", "4", "9", "6", "7", "2", "9", "5">>,
      <<"4", "2", "9", "4", "9", "6", "7", "2", "9", "6">>,
      <<"9", "9", "9", "9", "9", "9", "9", "9", "9", "9", "9">>,
      <<"1", "+", "4", "2", "9", "4", "9", "6", "7", "2", "9", "6">>,
      <<"f", "(", "2", "1", "4", "7", "4", "8", "3", "6", "4", "8", ")">>,
      <<"4", "2", "9", "4", "9", "6", "7", "2", "9", "7", "*", "2">>,
      <<"(", "a", "+", "b">>,
      <<"f", "(", "a">>,
      <<"(", "(", "a", ")">>,
      <<"g", "(", "a", ",", "(", "b", ")">>,
      <<"f", "(", "4", "2", "9", "4", "9", "6", "7", "2", "9", "6", ")">>,
      <<"(", "4", "2", "9", "4", "9", "6", "7", "2", "9", "6", ")">>,
      <<"a", "-", "9", "9", "9", "9", "9", "9", "9", "9", "9", "9", "9">>,
      <<"2", "*", "(", "3", "+", "4", "2", "9", "4", "9", "6", "7", "2", "9", "6", ")">> }

EmptyDirectoryTexts ==
    { <<"2", "+", "3">>,
      <<"-", "1", "0", "+", "3">>,
      <<"x", "*", "2">>,
      <<"a", "d", "d", "(", "2", ",", "3", ")">> }

Expressions == GeneratedTexts \cup ScenarioTexts

AlternateTexts == { <<"a">>, <<"b">>, <<"a", "-", "b">> }

AlternateExterns == { DuplicateExterns, NullPointerExterns }

(* texts and arrays of a caller that compiles several times *)
SessionTexts ==
    { <<"2", "+", "3">>,
      <<"a", "+", "b", "*", "c">>,
      <<"x", "*", "2">>,
      <<"a", "d", "d", "(", "2", ",", "3", ")">> }

SessionExterns == { MainExterns, DuplicateExterns }

(* bytes that may follow the terminating NUL of expression_ *)
Tails == { <<>>, <<")">>, <<NUL, ",", ")">> }

(* trees for the emitter alone: every tree of at most MaxNodes nodes over  *)
(* two leaves, the three arithmetic tags and the functions f, g, h, k    *)
Leaves ==
    { MkNode("Constant", Content(<<"0", "x", "f", "f", "f", "f", "f", "f", "f", "d">>), <<>>),
      MkNode("Variable", Content(<<"x">>), <<>>) }

ArithTags == {"Plus", "Minus", "Product"}

FunctionOfArity == << <<"f">>, <<"g">>, <<"h">>, <<"k">> >>

Min(a, b) == IF a < b THEN a ELSE b

RECURSIVE TreesOfSize(_)
RECURSIVE Forests(_, _)

Forests(k, a) ==
    IF a = 1 THEN { <<t>> : t \in TreesOfSize(k) }
    ELSE UNION { { <<t>> \o rest : t \in TreesOfSize(i), rest \in Forests(k - i, a - 1) }
                 : i \in 1..(k - (a - 1)) }

TreesOfSize(k) ==
    IF k = 1 THEN Leaves
    ELSE UNION { { MkNode(tag, NoContent, <<l, r>>) :
                      tag \in ArithTags, l \in TreesOfSize(i), r \in TreesOfSize(k - 1 - i) }
                 : i \in 1..(k - 2) }
         \cup
         UNION { { MkNode("Function", Content(FunctionOfArity[a]), args) :
                      args \in Forests(k - 1, a) }
                 : a \in 1..Min(4, k - 1) }

Trees == UNION { TreesOfSize(k) : k \in 1..MaxNodes }

(* the state in which the caller invokes the emitted code: sp, lr, r4 and  *)
(* the run-time values of the variables                                    *)
Junk == W(\hDEAD, \hBEEF)

EntryStates ==
    { [sp |-> W(\h7FFF, \hF000), lr |-> W(0, \h8000), r4 |-> W(\h1234, \h5678),
       vars |-> (VarA :> SmallW(5) @@ VarB :> SmallW(7) @@ VarC :> SmallW(3)
                 @@ VarD :> SmallW(1) @@ VarX :> SmallW(21))],
      [sp |-> W(0, 8), lr |-> W(\hFFFF, \hFFFC), r4 |-> Zero32,
       vars |-> (VarA :> W(\hFFFF, \hFFFF) @@ VarB :> W(\h8000, 0) @@ VarC :> SmallW(2)
                 @@ VarD :> W(\h7FFF, \hFFFF) @@ VarX :> W(\h8000, 1))] }

(* what a called function may leave in r1-r3, r12 and lr *)
Clobbers == { Junk }

----------------------------------------------------------------------------
(* State                                                                   *)

VARIABLES
    pc,             \* where control is: inside jit_compile_expression_to_arm, or in the emitted code
    expression,     \* the expression argument
    externs,        \* the externs argument
    address_map,    \* address_map of the entry point, then ARM_JIT_Compiler::address_map_
    parse_tree_,    \* ExpressionParser::root_, then ARM_JIT_Compiler::parse_tree_
    instructions_,  \* ARM_JIT_Compiler::instructions_
    bin,            \* the vector returned by GetCompiledBinary
    out_buffer,     \* the words written to out_buffer so far
    error,          \* the exception, assertion or signal that ended the compilation
    oob,            \* how far the parser has read: "inside" the text, its "terminator", or "beyond"
    cpu,            \* the registers r0..r15 while the emitted code runs
    mem,            \* data memory while the emitted code runs
    entry,          \* the caller's state at the invocation of the emitted code
    earlier         \* what the calls that have returned were given and what they emitted

vars == << pc, expression, externs, address_map, parse_tree_, instructions_, bin,
           out_buffer, error, oob, cpu, mem, entry, earlier >>

IdleCpu == [k \in 0..15 |-> Zero32]
NoEntry == [sp |-> Zero32, lr |-> Zero32, r4 |-> Zero32, vars |-> EmptyMap]

Init ==
    /\ pc = "entry"
    /\ \/ expression \in Expressions /\ externs = MainExterns
       \/ expression \in EmptyDirectoryTexts /\ externs = EmptyExterns
       \/ expression \in AlternateTexts /\ externs \in AlternateExterns
    /\ address_map = EmptyMap
    /\ parse_tree_ = DefaultNode
    /\ instructions_ = <<>>
    /\ bin = <<>>
    /\ out_buffer = <<>>
    /\ error = "none"
    /\ oob = "inside"
    /\ cpu = IdleCpu
    /\ mem = EmptyMap
    /\ entry = NoEntry
    /\ earlier = {}

(* the emitter alone: a compiler constructed over the directory and handed *)
(* a tree by TransferParsingTree                                           *)
InitEmitter ==
    /\ pc = "parsed"
    /\ expression = <<>>
    /\ externs = MainExterns
    /\ address_map = Ingest(MainExterns)
    /\ parse_tree_ \in Trees
    /\ instructions_ = <<>>
    /\ bin = <<>>
    /\ out_buffer = <<>>
    /\ error = "none"
    /\ oob = "inside"
    /\ cpu = IdleCpu
    /\ mem = EmptyMap
    /\ entry = NoEntry
    /\ earlier = {}

Fail(e) == pc' = "failed" /\ error' = e

(* jit_compile_expression_to_arm, lines 787-793: the directory *)
IngestExterns ==
    /\ pc = "entry"
    /\ address_map' = Ingest(externs)
    /\ pc' = "ingested"
    /\ UNCHANGED << expression, externs, parse_tree_, instructions_, bin, out_buffer,
                    error, oob, cpu, mem, entry, earlier >>

(* line 795: ExpressionParser parser(expression_cpp).  A parse that stays  *)
(* inside the text and its terminator has one outcome; one that reads past *)
(* the terminator has the outcome of whatever bytes lie there.             *)
ConstructParser ==
    /\ pc = "ingested"
    /\ \E tail \in Tails :
         LET r0 == ExpressionParser(expression, <<>>)
             r == IF r0.st = "segv" THEN ExpressionParser(expression, tail) ELSE r0
         IN  /\ parse_tree_' = r.node
             /\ oob' = IF r0.st = "segv" THEN "beyond"
                       ELSE IF r.oob THEN "terminator" ELSE "inside"
             /\ IF r.st = "ok" THEN pc' = "parsed" /\ error' = error ELSE Fail(r.st)
    /\ UNCHANGED << expression, externs, address_map, instructions_, bin, out_buffer,
                    cpu, mem, entry, earlier >>

(* lines 796-798: TransferParsingTree and compiler.compile() *)
Compile ==
    /\ pc = "parsed"
    /\ LET r == compile(address_map, parse_tree_, instructions_)
       IN  /\ instructions_' = r.ins
           /\ IF r.st = "ok" THEN pc' = "compiled" /\ error' = error ELSE Fail(r.st)
    /\ UNCHANGED << expression, externs, address_map, parse_tree_, bin, out_buffer,
                    oob, cpu, mem, entry, earlier >>

(* for comparison: a translation that stores each word in out_buffer as   *)
(* soon as it is encoded                                                   *)
Translation_streaming ==
    /\ pc = "compiled"
    /\ LET r == GetCompiledBinary(instructions_)
       IN  IF r.st = "ok"
           THEN pc' = "translated" /\ bin' = r.binary /\ error' = error
                /\ out_buffer' = out_buffer
           ELSE Fail(r.st) /\ bin' = bin /\ out_buffer' = out_buffer \o r.binary
    /\ UNCHANGED << expression, externs, address_map, parse_tree_, instructions_,
                    oob, cpu, mem, entry, earlier >>

(* line 800: auto bin = compiler.GetCompiledBinary() *)
Translation ==
    /\ pc = "compiled"
    /\ LET r == GetCompiledBinary(instructions_)
       IN  IF r.st = "ok"
           THEN pc' = "translated" /\ bin' = r.binary /\ error' = error
           ELSE Fail(r.st) /\ bin' = bin
    /\ UNCHANGED << expression, externs, address_map, parse_tree_, instructions_,
                    out_buffer, oob, cpu, mem, entry, earlier >>

(* lines 802-806: the copy into out_buffer, after which the function returns *)
WriteBuffer ==
    /\ pc = "translated"
    /\ out_buffer' = out_buffer \o bin
    /\ pc' = "written"
    /\ UNCHANGED << expression, externs, address_map, parse_tree_, instructions_, bin,
                    error, oob, cpu, mem, entry, earlier >>

(* the caller calls the buffer as a parameterless subroutine *)
Invoke ==
    /\ pc = "written"
    /\ \E e \in EntryStates :
         /\ entry' = e
         /\ mem' = e.vars
         /\ cpu' = [k \in 0..15 |->
                      IF k = SPr THEN e.sp
                      ELSE IF k = LRr THEN e.lr
                      ELSE IF k = PCr THEN BufBase
                      ELSE IF k = R4 THEN e.r4
                      ELSE Junk]
    /\ pc' = "running"
    /\ UNCHANGED << expression, externs, address_map, parse_tree_, instructions_, bin,
                    out_buffer, error, oob, earlier >>

(* the processor executes the emitted word at pc *)
Step ==
    /\ pc = "running"
    /\ InCode(out_buffer, cpu[PCr])
    /\ LET x == Execute(out_buffer, mem, cpu, Load(out_buffer, mem, cpu[PCr]))
       IN  /\ cpu' = x.r
           /\ mem' = x.mem
           /\ IF x.st = "fault" THEN pc' = "faulted" ELSE pc' = pc
    /\ UNCHANGED << expression, externs, address_map, parse_tree_, instructions_, bin,
                    out_buffer, error, oob, entry, earlier >>

(* control is at the entry of a called function: it runs and returns to    *)
(* lr with its result in r0, sp and r4-r11 preserved                       *)
ExternCall ==
    /\ pc = "running"
    /\ cpu[PCr] \in FuncAddrs
    /\ \E junk \in Clobbers :
         cpu' = [k \in 0..15 |->
                   IF k = 0
                   THEN Apply(cpu[PCr], [i \in 1..Arity(cpu[PCr]) |-> cpu[i - 1]])
                   ELSE IF k \in {1, 2, 3, 12, LRr} THEN junk
                   ELSE IF k = PCr THEN cpu[LRr]
                   ELSE cpu[k]]
    /\ UNCHANGED << pc, expression, externs, address_map, parse_tree_, instructions_, bin,
                    out_buffer, error, oob, mem, entry, earlier >>

(* control has left the emitted code for an address that is no function *)
Leave ==
    /\ pc = "running"
    /\ ~InCode(out_buffer, cpu[PCr])
    /\ cpu[PCr] \notin FuncAddrs
    /\ pc' = "returned"
    /\ UNCHANGED << expression, externs, address_map, parse_tree_, instructions_, bin,
                    out_buffer, error, oob, cpu, mem, entry, earlier >>

Next ==
    \/ IngestExterns
    \/ ConstructParser
    \/ Compile
    \/ Translation
    \/ WriteBuffer
    \/ Invoke
    \/ Step
    \/ ExternCall
    \/ Leave

Spec == Init /\ [][Next]_vars

NextEmitter ==
    \/ Compile
    \/ Translation
    \/ WriteBuffer
    \/ Invoke
    \/ Step
    \/ ExternCall
    \/ Leave

SpecEmitter == InitEmitter /\ [][NextEmitter]_vars

(* a caller that calls jit_compile_expression_to_arm again after a call    *)
(* has returned.  Lines 784-785 and 795-796 construct expression_cpp,      *)
(* address_map, parser and compiler anew in every call; out_buffer is what *)
(* the running call has written.                                           *)
MaxCalls == 2

InitSession ==
    /\ pc = "entry"
    /\ expression \in SessionTexts
    /\ externs \in SessionExterns
    /\ address_map = EmptyMap
    /\ parse_tree_ = DefaultNode
    /\ instructions_ = <<>>
    /\ bin = <<>>
    /\ out_buffer = <<>>
    /\ error = "none"
    /\ oob = "inside"
    /\ cpu = IdleCpu
    /\ mem = EmptyMap
    /\ entry = NoEntry
    /\ earlier = {}

CallAgain_keeping_instructions ==
    /\ pc = "written"
    /\ Cardinality(earlier) < MaxCalls
    /\ earlier' = earlier \cup {[expression |-> expression, externs |-> externs,
                                  parse_tree_ |-> parse_tree_, address_map |-> address_map,
                                  bin |-> bin]}
    /\ pc' = "entry"
    /\ expression' \in SessionTexts
    /\ externs' \in SessionExterns
    /\ address_map' = EmptyMap
    /\ parse_tree_' = DefaultNode
    /\ bin' = <<>>
    /\ out_buffer' = <<>>
    /\ UNCHANGED << instructions_, error, oob, cpu, mem, entry >>

CallAgain ==
    /\ pc = "written"
    /\ Cardinality(earlier) < MaxCalls
    /\ earlier' = earlier \cup {[expression |-> expression, externs |-> externs,
                                  parse_tree_ |-> parse_tree_, address_map |-> address_map,
                                  bin |-> bin]}
    /\ pc' = "entry"
    /\ expression' \in SessionTexts
    /\ externs' \in SessionExterns
    /\ address_map' = EmptyMap
    /\ parse_tree_' = DefaultNode
    /\ instructions_' = <<>>
    /\ bin' = <<>>
    /\ out_buffer' = <<>>
    /\ UNCHANGED << error, oob, cpu, mem, entry >>

NextSession ==
    \/ IngestExterns
    \/ ConstructParser
    \/ Compile
    \/ Translation
    \/ WriteBuffer
    \/ Invoke
    \/ Step
    \/ ExternCall
    \/ Leave
    \/ CallAgain

SpecSession == InitSession /\ [][NextSession]_vars

----------------------------------------------------------------------------
(* The value of a tree: two's-complement 32-bit arithmetic over the        *)
(* run-time values of the variables                                        *)

Directory == Ingest(MainExterns)

(* the number written by the first n hexadecimal digits of str, n <= 4 *)
RECURSIVE HexValue(_, _)
HexValue(str, n) == IF n = 0 THEN 0 ELSE HexValue(str, n - 1) * 16 + HexVal(str[n])

(* the word a Constant's content ("0x" and at most eight digits) denotes *)
ConstantValue(content) ==
    LET digits == SubSeq(content.str, 3, Len(content.str))
        n == Len(digits)
    IN  IF n <= 4 THEN W(0, HexValue(digits, n))
        ELSE W(HexValue(SubSeq(digits, 1, n - 4), n - 4),
               HexValue(SubSeq(digits, n - 3, n), 4))

RECURSIVE Eval(_, _)
Eval(t, values) ==
    CASE t.type = "Constant" -> ConstantValue(t.content)
      [] t.type = "Variable" -> values[Directory[t.content.str]]
      [] t.type = "Plus" ->
            AddW(Eval(t.sub_expressions[1], values), Eval(t.sub_expressions[2], values))
      [] t.type = "Minus" ->
            SubW(Eval(t.sub_expressions[1], values), Eval(t.sub_expressions[2], values))
      [] t.type = "Product" ->
            MulW(Eval(t.sub_expressions[1], values), Eval(t.sub_expressions[2], values))
      [] t.type = "Function" ->
            Apply(Directory[t.content.str],
                  [i \in 1..Len(t.sub_expressions) |-> Eval(t.sub_expressions[i], values)])

----------------------------------------------------------------------------
(* C2: emitter round trip.  For every tree that satisfies the data-model   *)
(* invariants, compile() and GetCompiledBinary() succeed, the emitted      *)
(* words run without a fault, and when control returns r0 holds the value  *)
(* of the tree in 32-bit two's-complement arithmetic (Minus is left minus  *)
(* right, a Variable is the value stored at its address at run time).      *)
C2_EmitterRoundTrip ==
    /\ pc \notin {"failed", "faulted"}
    /\ pc = "returned" => cpu[R0] = Eval(parse_tree_, entry.vars)

C2_Witness ==
    /\ pc = "returned"
    /\ parse_tree_.type = "Minus"
    /\ parse_tree_.sub_expressions[1].type = "Variable"
    /\ parse_tree_.sub_expressions[2].type = "Function"
    /\ cpu[R0] = Eval(parse_tree_, entry.vars)
    /\ cpu[R0] # SubW(Eval(parse_tree_.sub_expressions[2], entry.vars),
                      Eval(parse_tree_.sub_expressions[1], entry.vars))

----------------------------------------------------------------------------
(* Well-formed expressions and their meaning, by the usual grammar:        *)
(*     expr    ::= term   { ("+" | "-") term }     left-associative        *)
(*     term    ::= primary { "*" primary }         binds tighter           *)
(*     primary ::= number | name | name "(" expr { "," expr } ")"          *)
(*               | "(" expr ")"                                            *)
(* RefExpr and its companions read the space-stripped text s from index i  *)
(* and return the tree of what they read and the index after it.  A number *)
(* of more than nine digits is read, and its Constant carries no content.  *)

Letters == {"a", "b", "c", "d", "f", "g", "h", "k", "l", "m", "u", "x"}

At(s, i) == IF i >= 1 /\ i <= Len(s) THEN s[i] ELSE NUL

RECURSIVE RunEnd(_, _, _)
RunEnd(s, i, in) == IF At(s, i) \in in THEN RunEnd(s, i + 1, in) ELSE i

DigitSet == {Digits[i] : i \in 1..10}

RECURSIVE DecimalValue(_, _, _)
DecimalValue(s, i, acc) ==
    IF i > Len(s) THEN acc ELSE DecimalValue(s, i + 1, acc * 10 + DigitVal(s[i]))

RefFail == [ok |-> FALSE, pos |-> 0, node |-> DefaultNode]

RECURSIVE RefExpr(_, _)
RECURSIVE RefExprRest(_, _, _)
RECURSIVE RefTerm(_, _)
RECURSIVE RefTermRest(_, _, _)
RECURSIVE RefPrimary(_, _)
RECURSIVE RefArgs(_, _, _)

RefArgs(s, i, args) ==
    LET e == RefExpr(s, i)
    IN  IF ~e.ok THEN [ok |-> FALSE, pos |-> 0, args |-> args]
        ELSE IF At(s, e.pos) = "," THEN RefArgs(s, e.pos + 1, Append(args, e.node))
        ELSE IF At(s, e.pos) = ")"
        THEN [ok |-> TRUE, pos |-> e.pos + 1, args |-> Append(args, e.node)]
        ELSE [ok |-> FALSE, pos |-> 0, args |-> args]

RefPrimary(s, i) ==
    LET c == At(s, i)
    IN  IF c \in DigitSet
        THEN LET j == RunEnd(s, i, DigitSet)
             IN  IF At(s, j) \in Letters THEN RefFail
                 ELSE IF j - i > 9
                 THEN [ok |-> TRUE, pos |-> j, node |-> MkNode("Constant", NoContent, <<>>)]
                 ELSE [ok |-> TRUE, pos |-> j,
                       node |-> MkNode("Constant",
                                       Content(<<"0", "x">> \o
                                               HexOfInt(DecimalValue(SubSeq(s, i, j - 1), 1, 0))),
                                       <<>>)]
        ELSE IF c \in Letters
        THEN LET j == RunEnd(s, i, Letters \cup DigitSet)
                 name == Content(SubSeq(s, i, j - 1))
             IN  IF At(s, j) = "("
                 THEN LET a == RefArgs(s, j + 1, <<>>)
                      IN  IF a.ok
                          THEN [ok |-> TRUE, pos |-> a.pos,
                                node |-> MkNode("Function", name, a.args)]
                          ELSE RefFail
                 ELSE [ok |-> TRUE, pos |-> j, node |-> MkNode("Variable", name, <<>>)]
        ELSE IF c = "("
        THEN LET e == RefExpr(s, i + 1)
             IN  IF e.ok /\ At(s, e.pos) = ")"
                 THEN [ok |-> TRUE, pos |-> e.pos + 1, node |-> e.node]
                 ELSE RefFail
        ELSE RefFail

RefTermRest(s, i, left) ==
    IF At(s, i) = "*"
    THEN LET r == RefPrimary(s, i + 1)
         IN  IF r.ok
             THEN RefTermRest(s, r.pos, MkNode("Product", NoContent, <<left, r.node>>))
             ELSE RefFail
    ELSE [ok |-> TRUE, pos |-> i, node |-> left]

RefTerm(s, i) ==
    LET p == RefPrimary(s, i)
    IN  IF p.ok THEN RefTermRest(s, p.pos, p.node) ELSE RefFail

RefExprRest(s, i, left) ==
    IF At(s, i) \in {"+", "-"}
    THEN LET r == RefTerm(s, i + 1)
         IN  IF r.ok
             THEN RefExprRest(s, r.pos,
                              MkNode(GetTypeFromChar(At(s, i)), NoContent, <<left, r.node>>))
             ELSE RefFail
    ELSE [ok |-> TRUE, pos |-> i, node |-> left]

RefExpr(s, i) ==
    LET t == RefTerm(s, i)
    IN  IF t.ok THEN RefExprRest(s, t.pos, t.node) ELSE RefFail

(* every Constant has at most nine digits, every Variable names a variable *)
(* of the directory, every Function a function of the directory called     *)
(* with as many arguments as it takes                                      *)
RECURSIVE WellTyped(_)
WellTyped(t) ==
    /\ t.type = "Constant" => t.content.has
    /\ t.type = "Variable" =>
          t.content.str \in DOMAIN Directory /\ Directory[t.content.str] \in VarAddrs
    /\ t.type = "Function" =>
          /\ t.content.str \in DOMAIN Directory
          /\ Directory[t.content.str] \in FuncAddrs
          /\ Arity(Directory[t.content.str]) = Len(t.sub_expressions)
    /\ \A i \in 1..Len(t.sub_expressions) : WellTyped(t.sub_expressions[i])

RefTree(text) == RefExpr(GetRidOfSpaces(text), 1).node

(* the text is an expression of the grammar, whatever its names and numbers *)
WellShaped(text) ==
    LET s == GetRidOfSpaces(text)
        r == RefExpr(s, 1)
    IN  r.ok /\ r.pos = Len(s) + 1

WellFormed(text) ==
    LET s == GetRidOfSpaces(text)
        r == RefExpr(s, 1)
    IN  r.ok /\ r.pos = Len(s) + 1 /\ WellTyped(r.node)

----------------------------------------------------------------------------
(* C1: end to end.  For every well-formed expression text over decimal     *)
(* constants, variables, function calls, "+", "-", "*", parentheses and    *)
(* spaces, jit_compile_expression_to_arm succeeds and the emitted words,   *)
(* run as a subroutine, return in r0 the value of the expression under the *)
(* usual precedence and parenthesisation.                                  *)
C1_EndToEnd ==
    (pc \in {"failed", "faulted", "returned"} /\ address_map = Directory
        /\ WellFormed(expression))
    => /\ pc = "returned"
       /\ cpu[R0] = Eval(RefTree(expression), entry.vars)

----------------------------------------------------------------------------
(* C3: the split operator of a range is, among the operators of the range  *)
(* at parenthesis depth 0, one of the lowest precedence, and among those   *)
(* the rightmost.  Stated for the whole space-stripped text of a           *)
(* well-formed expression, the first range the parser splits.              *)

(* number of "(" minus number of ")" before index i of s *)
DepthAt(s, i) ==
    Cardinality({k \in 1..(i - 1) : s[k] = "("}) - Cardinality({k \in 1..(i - 1) : s[k] = ")"})

SplitCandidates(s) == {i \in 1..Len(s) : IsOpChar(s[i]) /\ DepthAt(s, i) = 0}

IsLowestRightmost(s, i) ==
    /\ i \in SplitCandidates(s)
    /\ \A k \in SplitCandidates(s) :
          \/ GetPriority(GetTypeFromChar(s[k])) > GetPriority(GetTypeFromChar(s[i]))
          \/ (GetPriority(GetTypeFromChar(s[k])) = GetPriority(GetTypeFromChar(s[i]))
              /\ k <= i)

(* the split FindArithmeticOperation makes of the whole stripped text *)
RootSplit(text) ==
    LET s == GetRidOfSpaces(text)
    IN  FindArithmeticOperation(s \o <<NUL>>, Len(s), 0, Len(s))

C3_SplitLowestRightmost ==
    (pc = "parsed" /\ WellFormed(expression)
        /\ SplitCandidates(GetRidOfSpaces(expression)) # {})
    => LET s == GetRidOfSpaces(expression)
           r == RootSplit(expression)
       IN  /\ r.st = "ok"
           /\ r.type # "Default"
           /\ IsLowestRightmost(s, r.pos + 1)
           /\ parse_tree_.type = GetTypeFromChar(s[r.pos + 1])

----------------------------------------------------------------------------
(* C4: prologue and epilogue are fixed.  Whenever a word stream has been   *)
(* produced, its first two words are 0xE52DE004 (push {lr}) and 0xE52D4004 *)
(* (push {r4}) and its last two are 0xE49D0004 (pop {r0}) and 0xE8BD8010   *)
(* (pop {r4, pc}); the same holds of what is written to the buffer.        *)
FixedEnds(words) ==
    /\ Len(words) >= 4
    /\ words[1] = W(\hE52D, \hE004)
    /\ words[2] = W(\hE52D, \h4004)
    /\ words[Len(words) - 1] = W(\hE49D, \h0004)
    /\ words[Len(words)] = W(\hE8BD, \h8010)

C4_PrologueEpilogueFixed ==
    /\ pc \in {"translated", "written", "running", "returned", "faulted"} => FixedEnds(bin)
    /\ pc \in {"written", "running", "returned", "faulted"} => FixedEnds(out_buffer)

C4_Witness ==
    /\ pc = "written"
    /\ expression = <<"a", "+", "b", "*", "c">>
    /\ Len(out_buffer) > 8
    /\ FixedEnds(out_buffer)

----------------------------------------------------------------------------
(* C5: calling convention of the emitted code.  Entered with any sp, lr    *)
(* and r4, and with every called function returning to its caller with sp  *)
(* and r4 preserved, the emitted code never faults and ends by branching   *)
(* to the lr of entry with sp and r4 as at entry and the result in r0.     *)
C5_CallingConvention ==
    /\ pc # "faulted"
    /\ pc = "returned" =>
          /\ cpu[PCr] = entry.lr
          /\ cpu[SPr] = entry.sp
          /\ cpu[R4] = entry.r4
          /\ cpu[R0] = Eval(parse_tree_, entry.vars)

C5_Witness ==
    /\ pc = "returned"
    /\ parse_tree_.type = "Function"
    /\ Len(parse_tree_.sub_expressions) = 4
    /\ entry.sp = SmallW(8)
    /\ cpu[LRr] # entry.lr
    /\ cpu[PCr] = entry.lr
    /\ cpu[SPr] = entry.sp
    /\ cpu[R4] = entry.r4

----------------------------------------------------------------------------
(* C6: Name-Not-Found.  When a Variable or Function node names an          *)
(* identifier absent from the directory, emission fails with an error, and *)
(* at the failure instructions_ holds nothing of the offending node's      *)
(* subtree: for a Function node, nothing of its arguments either.          *)

RECURSIVE HasMissingName(_, _)
HasMissingName(map, t) ==
    \/ t.type \in {"Variable", "Function"} /\ ~Known(map, t.content.str)
    \/ \E i \in 1..Len(t.sub_expressions) : HasMissingName(map, t.sub_expressions[i])

(* the tree with every subtree under an absent Function name cut off: the  *)
(* node that remains is a leaf of the same absent name                     *)
RECURSIVE CutAtMissing(_, _)
CutAtMissing(map, t) ==
    IF t.type = "Function" /\ ~Known(map, t.content.str)
    THEN MkNode("Variable", t.content, <<>>)
    ELSE MkNode(t.type, t.content,
                [i \in 1..Len(t.sub_expressions) |-> CutAtMissing(map, t.sub_expressions[i])])

(* compile() has run on the tree: it begins with add_header *)
Emitting == pc \notin {"entry", "ingested", "parsed"} /\ instructions_ # <<>>

C6_NameNotFound ==
    (Emitting /\ HasMissingName(address_map, parse_tree_))
    => /\ pc = "failed"
       /\ error = "map_at"
       /\ instructions_ = compile(address_map, CutAtMissing(address_map, parse_tree_), <<>>).ins

----------------------------------------------------------------------------
(* C7: arity cap.  A call with more than four arguments is rejected when   *)
(* the tree is compiled: no word stream is produced for it.                *)

RECURSIVE HasWideCall(_)
HasWideCall(t) ==
    \/ t.type = "Function" /\ Len(t.sub_expressions) > 4
    \/ \E i \in 1..Len(t.sub_expressions) : HasWideCall(t.sub_expressions[i])

C7_ArityCap ==
    (Emitting /\ HasWideCall(parse_tree_))
    => /\ pc \in {"compiled", "failed"}
       /\ bin = <<>>
       /\ out_buffer = <<>>

----------------------------------------------------------------------------
(* C8: every decimal literal of value n, 0 <= n <= 2^32 - 1, is accepted:  *)
(* the parser produces the Constant "0x" followed by the lowercase         *)
(* hexadecimal form of n, and the payload word emitted for it equals n.    *)
(* Stated for the texts that are one literal.                              *)

IsLiteral(s) == s # <<>> /\ \A i \in 1..Len(s) : IsDigit(s[i])

(* the value of a literal as a word, "out_of_range" when above 2^32 - 1 *)
LiteralWord(s) == StoulLoop(s, 1, 10, Zero32)

(* ldr r0, [pc]; b over the payload; the payload: the fifth word *)
PayloadIndex == Len(add_header(<<>>)) + 3

C8_LiteralsAccepted ==
    LET s == GetRidOfSpaces(expression)
    IN  (pc \notin {"entry", "ingested"} /\ IsLiteral(s) /\ LiteralWord(s).st = "ok")
        => /\ pc # "failed"
           /\ parse_tree_ = MkNode("Constant",
                                   Content(<<"0", "x">> \o HexOfWord(LiteralWord(s).val)),
                                   <<>>)
           /\ bin # <<>> => bin[PayloadIndex] = LiteralWord(s).val

----------------------------------------------------------------------------
(* C9: constant overflow.  An expression holding a decimal literal above   *)
(* 2^32 - 1 does not compile: the run fails, and neither a word stream nor *)
(* a buffer content is ever produced from it.                              *)

(* s[i..j] is a literal of s: a maximal run of digits that is no part of a *)
(* name                                                                    *)
IsLiteralAt(s, i, j) ==
    /\ 1 <= i /\ i <= j /\ j <= Len(s)
    /\ \A k \in i..j : IsDigit(s[k])
    /\ At(s, i - 1) \notin (Letters \cup DigitSet)
    /\ At(s, j + 1) \notin DigitSet

HasOverflowLiteral(text) ==
    LET s == GetRidOfSpaces(text)
    IN  /\ WellShaped(text)
        /\ \E i \in 1..Len(s) : \E j \in i..Len(s) :
              IsLiteralAt(s, i, j) /\ LiteralWord(SubSeq(s, i, j)).st = "out_of_range"

C9_ConstantOverflow ==
    HasOverflowLiteral(expression)
    => /\ pc \in {"entry", "ingested", "failed"}
       /\ bin = <<>>
       /\ out_buffer = <<>>

C9_Witness ==
    /\ pc = "failed"
    /\ error = "out_of_range"
    /\ HasOverflowLiteral(expression)
    /\ parse_tree_.type = "Product"
    /\ bin = <<>>

----------------------------------------------------------------------------
(* C10: malformed input.  An expression with unbalanced parentheses makes  *)
(* the parser fail with a reported error, and the parser reads no          *)
(* character outside the space-stripped text while handling it.            *)

Unbalanced(text) ==
    LET s == GetRidOfSpaces(text)
    IN  \/ DepthAt(s, Len(s) + 1) # 0
        \/ \E i \in 1..Len(s) : DepthAt(s, i + 1) < 0

C10_UnbalancedRejected ==
    (pc \notin {"entry", "ingested"} /\ Unbalanced(expression))
    => /\ pc = "failed"
       /\ error \in {"assert", "invalid_argument", "out_of_range"}
       /\ oob = "inside"

----------------------------------------------------------------------------
(* C11: unary-zero rule.  Whenever the split operator of a range sits at   *)
(* the first position of the range (after the surplus parentheses are      *)
(* stripped), the left child of the node built for the range is the node   *)
(* Constant "0x0"; "-10" parses to Minus(Constant 0x0, Constant 0xa), and  *)
(* the code compiled from "-10+3" returns -7.                              *)

ZeroNode == MkNode("Constant", Content(<<"0", "x", "0">>), <<>>)

(* the constructor has run on the text of the state *)
Constructed == pc = "parsed" \/ (pc = "failed" /\ instructions_ = <<>>)

(* the node ParseExpression builds for the range [left0, right0) of the    *)
(* stripped text s when the split operator is the first character of the   *)
(* range; Default otherwise                                                *)
SplitAtFirst(s, left0, right0) ==
    LET m == s \o <<NUL>>
        n == Len(s)
        sp == StripLoop(m, n, left0, right0, 0, FALSE)
        left == left0 + sp.surplus
        right == right0 - sp.surplus
        f == FindArithmeticOperation(m, n, left, right)
    IN  IF sp.st = "ok" /\ left < right /\ f.st = "ok" /\ f.type # "Default" /\ f.pos = left
        THEN ParseArithmetic(m, n, left, right, f.type, f.pos).node
        ELSE DefaultNode

MinusSeven == W(\hFFFF, \hFFF9)

C11_UnaryZero ==
    /\ Constructed =>
          LET s == GetRidOfSpaces(expression)
          IN  \A left0 \in 0..Len(s) : \A right0 \in (left0 + 1)..Len(s) :
                 LET node == SplitAtFirst(s, left0, right0)
                 IN  node # DefaultNode => node.sub_expressions[1] = ZeroNode
    /\ (pc \notin {"entry", "ingested"} /\ expression = <<"-", "1", "0">>) =>
          /\ pc # "failed"
          /\ parse_tree_ = MkNode("Minus", NoContent,
                                  <<ZeroNode, MkNode("Constant", Content(<<"0", "x", "a">>), <<>>)>>)
    /\ (pc \in {"failed", "faulted", "returned"} /\ address_map = Directory
           /\ expression = <<"-", "1", "0", "+", "3">>) =>
          pc = "returned" /\ cpu[R0] = MinusSeven

C11_Witness ==
    /\ pc = "returned"
    /\ expression = <<"-", "1", "0", "+", "3">>
    /\ parse_tree_.type = "Plus"
    /\ parse_tree_.sub_expressions[1].type = "Minus"
    /\ parse_tree_.sub_expressions[1].sub_expressions[1] = ZeroNode
    /\ SplitAtFirst(<<"-", "1", "0">>, 0, 3) = parse_tree_.sub_expressions[1]
    /\ cpu[R0] = MinusSeven

----------------------------------------------------------------------------
(* C12: parenthesis idempotence.  For every text E whose parentheses are   *)
(* balanced, the constructor run on "(" E ")" ends as it ends on E, and    *)
(* when it builds a tree the tree is the one built for E: same tags, same  *)
(* contents, same order of children.                                       *)

Balanced(text) ==
    LET s == GetRidOfSpaces(text)
    IN  /\ DepthAt(s, Len(s) + 1) = 0
        /\ \A i \in 1..Len(s) : DepthAt(s, i + 1) >= 0

Wrapped(text) == <<"(">> \o text \o <<")">>

(* how the constructor ended in this state *)
Ending == IF pc = "failed" THEN error ELSE "ok"

SameAsWrapped(tail) ==
    LET w == ExpressionParser(Wrapped(expression), tail)
    IN  /\ w.st = Ending
        /\ w.st = "ok" => w.node = parse_tree_

C12_ParenthesisIdempotence ==
    (Constructed /\ Balanced(expression))
    => /\ oob = "beyond" <=> ExpressionParser(Wrapped(expression), <<>>).st = "segv"
       /\ IF oob = "beyond" THEN \E tail \in Tails : SameAsWrapped(tail)
          ELSE SameAsWrapped(<<>>)

C12_Witness ==
    /\ pc = "parsed"
    /\ expression = <<"(", "2", "+", "3", ")", "*", "4">>
    /\ parse_tree_.type = "Product"
    /\ parse_tree_.sub_expressions[1].type = "Plus"
    /\ ExpressionParser(Wrapped(expression), <<>>).node = parse_tree_
    /\ ExpressionParser(Wrapped(Wrapped(expression)), <<>>).node = parse_tree_

----------------------------------------------------------------------------
(* C13: space-insensitivity.  A text obtained from the input by inserting  *)
(* a space at any position, by deleting any one of its spaces, by deleting *)
(* all of them, or by putting a space around every character, makes the    *)
(* constructor end as it ends on the input and, when a tree is built,      *)
(* build the identical tree.                                               *)

InsertSpace(text, i) == SubSeq(text, 1, i) \o <<" ">> \o SubSeq(text, i + 1, Len(text))

DeleteAt(text, i) == SubSeq(text, 1, i - 1) \o SubSeq(text, i + 1, Len(text))

RECURSIVE SpacedOut(_)
SpacedOut(text) ==
    IF text = <<>> THEN <<" ">> ELSE <<" ", Head(text)>> \o SpacedOut(Tail(text))

Spacings(text) ==
    { InsertSpace(text, i) : i \in 0..Len(text) }
    \cup { DeleteAt(text, i) : i \in {k \in 1..Len(text) : text[k] = " "} }
    \cup { GetRidOfSpaces(text), SpacedOut(text) }

SameAsSpacing(other, tail) ==
    LET w == ExpressionParser(other, tail)
    IN  /\ w.st = Ending
        /\ w.st = "ok" => w.node = parse_tree_

C13_SpaceInsensitive ==
    Constructed
    => \A other \in Spacings(expression) :
          /\ oob = "beyond" <=> ExpressionParser(other, <<>>).st = "segv"
          /\ IF oob = "beyond" THEN \E tail \in Tails : SameAsSpacing(other, tail)
             ELSE SameAsSpacing(other, <<>>)

C13_Witness ==
    /\ pc = "parsed"
    /\ expression = <<"(", " ", "2", "+", "3", " ", ")", " ", "*", " ", "x">>
    /\ parse_tree_.type = "Product"
    /\ parse_tree_.sub_expressions[1].type = "Plus"
    /\ GetRidOfSpaces(expression) # expression
    /\ ExpressionParser(GetRidOfSpaces(expression), <<>>).node = parse_tree_
    /\ ExpressionParser(InsertSpace(expression, 3), <<>>).node = parse_tree_

----------------------------------------------------------------------------
(* C14: determinism.  The word stream of a call is the value of one        *)
(* function of the tree and the directory, and a call given the expression *)
(* and the directory of an earlier call (equally, one that arrives at the  *)
(* same tree and directory) emits word for word what the earlier call      *)
(* emitted, whatever was compiled before or in between.                    *)

Emit(T, D) == GetCompiledBinary(compile(D, T, <<>>).ins).binary

HasEmitted == pc \in {"translated", "written", "running", "returned", "faulted"}

C14_Determinism ==
    HasEmitted
    => /\ bin = Emit(parse_tree_, address_map)
       /\ \A r \in earlier :
             ((r.expression = expression /\ r.externs = externs)
                 \/ (r.parse_tree_ = parse_tree_ /\ r.address_map = address_map))
             => r.bin = bin

(* the third call is given what an earlier call was given, and another     *)
(* earlier call was given the same expression with another directory       *)
C14_Witness ==
    /\ pc = "written"
    /\ Cardinality(earlier) = 2
    /\ \E r \in earlier : r.expression = expression /\ r.externs = externs /\ r.bin = bin
    /\ \E r \in earlier : r.expression = expression /\ r.externs # externs /\ r.bin # bin

----------------------------------------------------------------------------
(* C15: directory ingestion.  Every record of the externs array before the *)
(* sentinel, the first record whose name and pointer are both null, is in  *)
(* the directory, and a name that occurs more than once has the address of *)
(* its last occurrence.                                                    *)

IsSentinel(record) == ~record.name.has /\ record.pointer = Zero32

SentinelIndex(array) ==
    CHOOSE i \in 1..Len(array) :
        IsSentinel(array[i]) /\ \A j \in 1..(i - 1) : ~IsSentinel(array[j])

LastOccurrence(array, nm) ==
    CHOOSE i \in 1..(SentinelIndex(array) - 1) :
        /\ array[i].name.str = nm
        /\ \A j \in (i + 1)..(SentinelIndex(array) - 1) : array[j].name.str # nm

C15_DirectoryIngestion ==
    pc # "entry"
    => /\ DOMAIN address_map = {externs[i].name.str : i \in 1..(SentinelIndex(externs) - 1)}
       /\ \A nm \in DOMAIN address_map :
             address_map[nm] = externs[LastOccurrence(externs, nm)].pointer

----------------------------------------------------------------------------
(* C16: depth-0 scan.  The operator FindArithmeticOperation returns for a  *)
(* range is never inside a parenthesised group of the range: between the   *)
(* start of the range and the operator there are as many "(" as ")".       *)
(* Stated for every range of the space-stripped text of a well-shaped      *)
(* expression on which the scan ends inside the range.                     *)

(* number of "(" minus number of ")" in s at the 0-based positions left..pos-1 *)
RangeDepth(s, left, pos) ==
    Cardinality({k \in (left + 1)..pos : s[k] = "("})
        - Cardinality({k \in (left + 1)..pos : s[k] = ")"})

C16_DepthZeroScan ==
    (Constructed /\ WellShaped(expression))
    => LET s == GetRidOfSpaces(expression)
       IN  \A left \in 0..Len(s) : \A right \in left..Len(s) :
              LET f == FindArithmeticOperation(s \o <<NUL>>, Len(s), left, right)
              IN  (f.st = "ok" /\ f.type # "Default") => RangeDepth(s, left, f.pos) = 0

----------------------------------------------------------------------------
(* C17: sign runs.  The operator FindArithmeticOperation returns for a     *)
(* range is the first of its run of operator characters: it is the first   *)
(* character of the range or the character before it is no operator.  So   *)
(* "5--3" parses to Minus(5, Minus(0x0, 3)) and "-+5" to                   *)
(* Minus(0x0, Plus(0x0, 5)).                                               *)

ConstantNode(digits) == MkNode("Constant", Content(<<"0", "x">> \o digits), <<>>)

C17_SignRuns ==
    Constructed
    => /\ LET s == GetRidOfSpaces(expression)
              m == s \o <<NUL>>
          IN  \A left \in 0..Len(s) : \A right \in left..Len(s) :
                 LET f == FindArithmeticOperation(m, Len(s), left, right)
                 IN  (f.st = "ok" /\ f.type # "Default")
                     => f.pos = left \/ ~IsOpChar(Rd(m, f.pos - 1))
       /\ expression = <<"5", "-", "-", "3">> =>
             parse_tree_ = MkNode("Minus", NoContent,
                                  <<ConstantNode(<<"5">>),
                                    MkNode("Minus", NoContent,
                                           <<ZeroNode, ConstantNode(<<"3">>)>>)>>)
       /\ expression = <<"-", "+", "5">> =>
             parse_tree_ = MkNode("Minus", NoContent,
                                  <<ZeroNode,
                                    MkNode("Plus", NoContent,
                                           <<ZeroNode, ConstantNode(<<"5">>)>>)>>)

----------------------------------------------------------------------------
(* C18: operand registers after the multi-pop.  In the code emitted for a  *)
(* Plus, Minus or Product node, when pop {r0, r1} (0xE8BD0003) has         *)
(* executed, r0 holds the value of the right operand, which was pushed     *)
(* last and lies at the lower address, and r1 holds the value of the left  *)
(* operand; the instruction that follows computes r1 op r0.                *)

(* number of words emitted for the subtree t: a literal load is three      *)
(* words (ldr, b, payload), every other instruction one, WORD_DECL none    *)
RECURSIVE CodeLen(_)
CodeLen(t) ==
    CASE t.type = "Constant" -> 4
      [] t.type = "Variable" -> 5
      [] t.type \in ArithTags -> CodeLen(t.sub_expressions[1]) + CodeLen(t.sub_expressions[2]) + 3
      [] t.type = "Function" ->
            LET n == Len(t.sub_expressions)
                RECURSIVE Sum(_)
                Sum(i) == IF i = 0 THEN 0 ELSE Sum(i - 1) + CodeLen(t.sub_expressions[i])
            IN  Sum(n) + n + 5

(* index in the word stream (from 0) of the first word of child i of a     *)
(* node whose code starts at base                                          *)
RECURSIVE ChildBase(_, _, _)
ChildBase(t, base, i) ==
    IF i = 1 THEN base
    ELSE ChildBase(t, base, i - 1) + CodeLen(t.sub_expressions[i - 1])

(* for every arithmetic node of t: the index of the word after its         *)
(* pop {r0, r1}, and its operands                                          *)
RECURSIVE OperandSites(_, _)
OperandSites(t, base) ==
    (IF t.type \in ArithTags
     THEN {[at |-> ChildBase(t, base, 3) + 1,
            L |-> t.sub_expressions[1], R |-> t.sub_expressions[2]]}
     ELSE {})
    \cup UNION { OperandSites(t.sub_expressions[i], ChildBase(t, base, i))
                 : i \in 1..Len(t.sub_expressions) }

PopR0R1 == W(\hE8BD, \h0003)

(* the sites whose pop {r0, r1} has just executed *)
SitesReached ==
    IF pc # "running" THEN {}
    ELSE { site \in OperandSites(parse_tree_, Len(add_header(<<>>))) :
              /\ CodeIndex(out_buffer, cpu[PCr]) = site.at
              /\ out_buffer[site.at] = PopR0R1 }

----------------------------------------------------------------------------
(* C19: in every tree the parser produces, every Function node has at      *)
(* least one child and at most four.                                       *)

RECURSIVE FunctionArities(_)
FunctionArities(t) ==
    (IF t.type = "Function" THEN {Len(t.sub_expressions)} ELSE {})
    \cup UNION { FunctionArities(t.sub_expressions[i]) : i \in 1..Len(t.sub_expressions) }

(* the constructor has returned a tree *)
Parsed == pc \notin {"entry", "ingested"} /\ ~(pc = "failed" /\ instructions_ = <<>>)

C19_FunctionChildren ==
    Parsed => \A n \in FunctionArities(parse_tree_) : 1 <= n /\ n <= 4

----------------------------------------------------------------------------
(* C20: stack discipline.  Where the code of a subtree starts the stack    *)
(* holds, above the two words of the prologue, the values of the subtrees  *)
(* completed and not yet consumed; where it ends the stack is that stack   *)
(* with one more word on top, the value of the subtree, and every word     *)
(* under it as it was.  So the pop {r0} of the epilogue reads the value of *)
(* the root and pop {r4, pc} reads the r4 and lr the prologue pushed.      *)

(* the values of the first k children of t, the latest on top, over below *)
Stacked(t, k, below) ==
    [j \in 1..k |-> Eval(t.sub_expressions[k + 1 - j], entry.vars)] \o below

(* for every subtree of t: where its code starts and ends (word indices    *)
(* from 0) and the stack, top first, at its start                          *)
RECURSIVE Frames(_, _, _)
Frames(t, base, below) ==
    {[start |-> base, end |-> base + CodeLen(t), tree |-> t, below |-> below]}
    \cup UNION { Frames(t.sub_expressions[i], ChildBase(t, base, i), Stacked(t, i - 1, below))
                 : i \in 1..Len(t.sub_expressions) }

(* the words from sp up to the sp of entry are those of stack, top first *)
StackIs(stack) ==
    /\ AddW(cpu[SPr], SmallW(4 * Len(stack))) = entry.sp
    /\ \A k \in 1..Len(stack) :
          LET addr == AddW(cpu[SPr], SmallW(4 * (k - 1)))
          IN  addr \in DOMAIN mem /\ mem[addr] = stack[k]

PrologueWords == <<entry.r4, entry.lr>>

C20_StackDiscipline ==
    /\ pc = "running" =>
          LET at == CodeIndex(out_buffer, cpu[PCr])
          IN  /\ Len(out_buffer) = Len(add_header(<<>>)) + CodeLen(parse_tree_)
                                    + Len(add_footer(<<>>))
              /\ \A fr \in Frames(parse_tree_, Len(add_header(<<>>)), PrologueWords) :
                    /\ at = fr.start => StackIs(fr.below)
                    /\ at = fr.end =>
                          StackIs(<<Eval(fr.tree, entry.vars)>> \o fr.below)
              /\ at = Len(out_buffer) - 1 =>
                    cpu[R0] = Eval(parse_tree_, entry.vars) /\ StackIs(PrologueWords)
    /\ pc = "returned" =>
          cpu[R4] = entry.r4 /\ cpu[PCr] = entry.lr /\ StackIs(<<>>)

(* the code of the second argument of a call has ended: its value lies on  *)
(* the value of the first argument, which lies on the prologue's words     *)
C20_Witness ==
    /\ pc = "running"
    /\ parse_tree_.type = "Function"
    /\ Len(parse_tree_.sub_expressions) = 2
    /\ parse_tree_.sub_expressions[2].type = "Minus"
    /\ \E fr \in Frames(parse_tree_, Len(add_header(<<>>)), PrologueWords) :
          /\ fr.tree = parse_tree_.sub_expressions[2]
          /\ CodeIndex(out_buffer, cpu[PCr]) = fr.end
          /\ Len(fr.below) = 3
          /\ StackIs(<<Eval(fr.tree, entry.vars)>> \o fr.below)
          /\ Eval(fr.tree, entry.vars) # fr.below[1]

----------------------------------------------------------------------------
(* C21: argument placement.  The code of a Function node with n arguments, *)
(* 1 <= n <= 4, is the code of its arguments in source order, then         *)
(* pop {r(n-1)}, ..., pop {r0}, then the literal load of the function's    *)
(* address into r4, blx r4 and push {r0}; when control is at the blx,      *)
(* register r(i-1) holds the value of the i-th argument for every i, and   *)
(* r4 the address of the function, also when arguments are calls.          *)

(* for every Function node of t: the node and the index (from 0) of the    *)
(* word after the code of its arguments                                    *)
RECURSIVE CallSites(_, _)
CallSites(t, base) ==
    (IF t.type = "Function"
     THEN {[pops |-> ChildBase(t, base, Len(t.sub_expressions) + 1), base |-> base, tree |-> t]}
     ELSE {})
    \cup UNION { CallSites(t.sub_expressions[i], ChildBase(t, base, i))
                 : i \in 1..Len(t.sub_expressions) }

(* the words of the stream from index from (from 0) up to, not including, index to *)
Words(from, to) == SubSeq(out_buffer, from + 1, to)

CallWords(n, address) ==
    [k \in 1..n |-> W(\hE49D, (n - k) * 4096 + 4)]
    \o << W(\hE59F, \h4000), W(\hEA00, 0), address, W(\hE12F, \hFF34), W(\hE52D, 4) >>

C21_ArgumentPlacement ==
    /\ pc = "written" =>
          \A site \in CallSites(parse_tree_, Len(add_header(<<>>))) :
             LET n == Len(site.tree.sub_expressions)
             IN  /\ n >= 1 /\ n <= 4
                 /\ \A i \in 1..n :
                       Words(ChildBase(site.tree, site.base, i),
                             ChildBase(site.tree, site.base, i + 1))
                       = GetCompiledBinary(
                             compile_(address_map, site.tree.sub_expressions[i], <<>>).ins).binary
                 /\ Words(site.pops, site.pops + n + 5)
                    = CallWords(n, address_map[site.tree.content.str])
    /\ pc = "running" =>
          \A site \in CallSites(parse_tree_, Len(add_header(<<>>))) :
             LET n == Len(site.tree.sub_expressions)
             IN  CodeIndex(out_buffer, cpu[PCr]) = site.pops + n + 3
                 => /\ \A i \in 1..n :
                          cpu[i - 1] = Eval(site.tree.sub_expressions[i], entry.vars)
                    /\ cpu[R4] = address_map[site.tree.content.str]

(* control is at the blx of g(f(..), ..): r0 holds what f returned *)
C21_Witness ==
    /\ pc = "running"
    /\ parse_tree_.type = "Function"
    /\ Len(parse_tree_.sub_expressions) = 2
    /\ parse_tree_.sub_expressions[1].type = "Function"
    /\ \E site \in CallSites(parse_tree_, Len(add_header(<<>>))) :
          /\ site.tree = parse_tree_
          /\ CodeIndex(out_buffer, cpu[PCr]) = site.pops + 5
          /\ out_buffer[site.pops + 6] = W(\hE12F, \hFF34)
          /\ cpu[R0] = Eval(parse_tree_.sub_expressions[1], entry.vars)
          /\ cpu[R1] = Eval(parse_tree_.sub_expressions[2], entry.vars)
          /\ cpu[R0] # cpu[R1]
          /\ cpu[R4] = FnG

----------------------------------------------------------------------------
(* C22: the inline literal pool                                            *)

(* the 0-based index, in the translated words, of the first word of the    *)
(* k-th intermediate when every LDR_FROM_NEXT before it counts three       *)
(* words, every WORD_DECL none and every other intermediate one            *)
WordOffset(k) ==
    (k - 1)
    + 2 * Cardinality({j \in 1..(k - 1) : instructions_[j].op = "LDR_FROM_NEXT"})
    - Cardinality({j \in 1..(k - 1) : instructions_[j].op = "WORD_DECL"})

LiteralLoads == {k \in 1..Len(instructions_) : instructions_[k].op = "LDR_FROM_NEXT"}

LoadTarget(k) == RegOrZero(instructions_[k].reg1)

WordAddress(index) == AddW(BufBase, SmallW(4 * index))

----------------------------------------------------------------------------
(* C23: the parse of a function leaf                                       *)

NameChar(c) == c \notin {"(", ")", ",", "+", "-", "*", " ", NUL, SEGV}

(* the first "(" at or after position l of s *)
OpenPar(s, l, r) == CHOOSE p \in l..r : s[p] = "(" /\ \A k \in l..(p - 1) : s[k] # "("

(* s[l..r] has the form name(args): a name that does not start with a     *)
(* digit, a "(" and, as the last character, the ")" that matches it        *)
FunctionForm(s, l, r) ==
    /\ l < r
    /\ NameChar(s[l])
    /\ s[l] \notin DigitSet
    /\ s[r] = ")"
    /\ \E p \in (l + 1)..(r - 1) : s[p] = "("
    /\ LET p == OpenPar(s, l, r)
       IN  /\ \A k \in l..(p - 1) : NameChar(s[k])
           /\ \A k \in p..(r - 1) : RangeDepth(s, p - 1, k) >= 1
           /\ RangeDepth(s, p - 1, r) = 0

(* the separators of the argument list of s[l..r]: the "(", the commas at  *)
(* depth 0 inside the outermost parentheses, and the matching ")"          *)
Separators(s, l, r) ==
    LET p == OpenPar(s, l, r)
    IN  {p, r} \cup {c \in (p + 1)..(r - 1) : s[c] = "," /\ RangeDepth(s, p - 1, c) = 1}

Separator(s, l, r, i) ==
    CHOOSE c \in Separators(s, l, r) :
        Cardinality({d \in Separators(s, l, r) : d < c}) = i - 1

(* the node the claim describes for the leaf s[l..r] *)
FunctionLeaf(s, l, r) ==
    LET m == s \o <<NUL>>
        n == Len(s)
    IN  MkNode("Function", Content(SubSeq(s, l, OpenPar(s, l, r) - 1)),
               [i \in 1..(Cardinality(Separators(s, l, r)) - 1) |->
                   ParseExpression(m, n, Separator(s, l, r, i),
                                   Separator(s, l, r, i + 1) - 1).node])

(* C23: a range of the text of the form name(args) that parses is parsed   *)
(* to a Function node whose content is the text before the first "(" and   *)
(* whose children are, in source order, the parses of the sub-ranges       *)
(* between the commas at depth 0 inside the outermost parentheses, the     *)
(* matching ")" ending the list; the tree of a text of that form is that   *)
(* node.                                                                   *)
C23_FunctionLeaf ==
    pc = "parsed" =>
        LET s == GetRidOfSpaces(expression)
            m == s \o <<NUL>>
            n == Len(s)
        IN  /\ \A l \in 1..n : \A r \in l..n :
                 (FunctionForm(s, l, r) /\ ParseExpression(m, n, l - 1, r).st = "ok")
                 => ParseExpression(m, n, l - 1, r).node = FunctionLeaf(s, l, r)
            /\ FunctionForm(s, 1, n) => parse_tree_ = FunctionLeaf(s, 1, n)

(* f(g(a,b),c) is parsed: f has two children, the first the call of g with *)
(* its two arguments                                                       *)
C23_Witness ==
    /\ pc = "parsed"
    /\ expression = <<"f", "(", "g", "(", "a", ",", "b", ")", ",", "c", ")">>
    /\ FunctionForm(expression, 1, Len(expression))
    /\ parse_tree_.content = Content(<<"f">>)
    /\ Len(parse_tree_.sub_expressions) = 2
    /\ parse_tree_.sub_expressions[1] =
         MkNode("Function", Content(<<"g">>),
                << MkNode("Variable", Content(<<"a">>), <<>>),
                   MkNode("Variable", Content(<<"b">>), <<>>) >>)
    /\ parse_tree_.sub_expressions[2] = MkNode("Variable", Content(<<"c">>), <<>>)

----------------------------------------------------------------------------
(* C24: the shape of the trees the parser returns                          *)

RECURSIVE Shaped(_)
Shaped(t) ==
    /\ t.type \in {"Constant", "Variable", "Plus", "Minus", "Product", "Function"}
    /\ t.type \in ArithTags => Len(t.sub_expressions) = 2 /\ ~t.content.has
    /\ t.type \in {"Constant", "Variable"} => t.sub_expressions = <<>> /\ t.content.has
    /\ t.type = "Function" => t.content.has
    /\ \A i \in 1..Len(t.sub_expressions) : Shaped(t.sub_expressions[i])

RECURSIVE TagsOf(_)
TagsOf(t) == {t.type} \cup UNION {TagsOf(t.sub_expressions[i]) : i \in 1..Len(t.sub_expressions)}

(* C24: in every tree the parser returns, a Plus, Minus or Product node    *)
(* has exactly two children and no content, a Constant or Variable node    *)
(* has no children and a content, a Function node has a content, and no    *)
(* node has the tag Default; so the emitter's assertion on that tag does   *)
(* not fire.                                                               *)
C24_TreeShape ==
    /\ pc = "parsed" => Shaped(parse_tree_)
    /\ (pc = "failed" /\ instructions_ # <<>> /\ bin = <<>> /\ error = "assert")
       => "Default" \notin TagsOf(parse_tree_)

(* a returned tree with an arithmetic node over a constant and a call *)
C24_Witness ==
    /\ pc = "parsed"
    /\ parse_tree_.type = "Product"
    /\ parse_tree_.sub_expressions[1].type = "Constant"
    /\ parse_tree_.sub_expressions[2].type = "Function"
    /\ Len(parse_tree_.sub_expressions[2].sub_expressions) = 2
    /\ TagsOf(parse_tree_) = {"Product", "Constant", "Function", "Variable"}

----------------------------------------------------------------------------
(* GetCompiledBinary alone: the translation of an arbitrary intermediate,  *)
(* by itself or after the two intermediates of the prologue                *)

Registers == {R0, R1, R2, R3, R4, LR, PC, NoReg}

Operations ==
    {"ADD", "SUB", "MUL", "BLX", "LDR_FROM_NEXT", "LDR_REG", "PUSH_MULT_REG", "PUSH_REG",
     "POP_MULT_REG", "POP_REG", "WORD_DECL"}

Intermediates ==
    { Instr(op, reg_a, reg_b,
            IF op \in {"LDR_FROM_NEXT", "WORD_DECL"} THEN Content(<<"0", "x", "2">>)
            ELSE NoContent)
      : op \in Operations, reg_a \in Registers, reg_b \in Registers }

InitTables ==
    /\ pc = "compiled"
    /\ expression = <<>>
    /\ externs = MainExterns
    /\ address_map = Ingest(MainExterns)
    /\ parse_tree_ = DefaultNode
    /\ \E i \in Intermediates : instructions_ \in {<<i>>, add_header(<<>>) \o <<i>>}
    /\ bin = <<>>
    /\ out_buffer = <<>>
    /\ error = "none"
    /\ oob = "inside"
    /\ cpu = IdleCpu
    /\ mem = EmptyMap
    /\ entry = NoEntry
    /\ earlier = {}

NextTables ==
    \/ Translation
    \/ WriteBuffer

SpecTables == InitTables /\ [][NextTables]_vars

----------------------------------------------------------------------------
(* C25: the words of ADD and SUB                                           *)

LastIntermediate == instructions_[Len(instructions_)]

IsAddSub ==
    /\ instructions_ # <<>>
    /\ LastIntermediate.op \in {"ADD", "SUB"}
    /\ LastIntermediate.reg1 \in R0..R4
    /\ LastIntermediate.reg2 \in R0..R4

(* (0xE << 28) | (opcode << 21) | (reg_b << 16) | (reg_a << 12) | rm *)
AddSubWord(op, reg_a, reg_b, rm) ==
    W(\hE000 + (IF op = "ADD" THEN 4 ELSE 2) * 32 + reg_b, reg_a * 4096 + rm)

(* C25, as the code has it: an ADD or SUB intermediate with registers      *)
(* reg_a and reg_b from R0..R4 is translated to the one word               *)
(* (0xE<<28)|(opcode<<21)|(reg_b<<16)|(reg_a<<12), opcode 4 for ADD and 2  *)
(* for SUB; the Rm field (bits 3..0) is 0 whatever reg_a is.               *)
C25_AddSubEncoding ==
    (IsAddSub /\ pc # "compiled")
    => /\ pc \in {"translated", "written"}
       /\ Len(bin) = Len(instructions_)
       /\ bin[Len(bin)] = AddSubWord(LastIntermediate.op, LastIntermediate.reg1,
                                     LastIntermediate.reg2, 0)

C25_Witness ==
    /\ pc = "translated"
    /\ IsAddSub
    /\ LastIntermediate.op = "SUB"
    /\ LastIntermediate.reg1 = R2
    /\ LastIntermediate.reg2 = R3
    /\ bin[Len(bin)] = W(\hE043, \h2000)

----------------------------------------------------------------------------
(* C26: combinations outside the tables                                    *)

(* the last intermediate names an operation with a register the tables of  *)
(* that operation do not list                                              *)
OutsideTables(i) ==
    \/ i.op = "LDR_FROM_NEXT" /\ i.reg1 \in {R1, R2, R3, LR, PC}
    \/ i.op = "LDR_REG" /\ i.reg1 \in {R1, R2, R3, LR, PC}
    \/ i.op = "BLX" /\ i.reg1 \in {R0, R1, R2, R3, LR, PC}
    \/ i.op = "PUSH_REG" /\ i.reg1 = PC
    \/ i.op = "POP_REG" /\ i.reg1 \in {LR, PC}
    \/ i.op = "PUSH_MULT_REG" /\ RegOrZero(i.reg2) \notin 1..3
    \/ i.op = "POP_MULT_REG" /\ RegOrZero(i.reg2) \notin {1, 2, 3, 6}
    \/ i.op = "POP_MULT_REG" /\ i.reg2 = PC /\ i.reg1 # R4

Rejected ==
    /\ pc = "failed"
    /\ error = "assert"
    /\ bin = <<>>
    /\ Translate(LastIntermediate).words = <<>>

C26_ClosedButLiteralLoad ==
    /\ (pc # "compiled" /\ OutsideTables(LastIntermediate)
        /\ LastIntermediate.op # "LDR_FROM_NEXT") => Rejected
    /\ (pc # "compiled" /\ LastIntermediate.op = "LDR_FROM_NEXT"
        /\ LastIntermediate.reg1 \notin {R0, NoReg})
       => /\ pc \in {"translated", "written"}
          /\ SubSeq(bin, Len(bin) - 2, Len(bin))
               = << W(\hE59F, \h4000), W(\hEA00, \h0000), SmallW(2) >>

----------------------------------------------------------------------------
(* C27: the output buffer of a call that fails                             *)

BeforeTheCopy == pc \in {"entry", "ingested", "parsed", "compiled", "translated", "failed"}

(* C27: out_buffer is written only after the parser, the emitter and the   *)
(* translation have all completed; a call that fails in any of them (a     *)
(* name that is not found, a constant out of range, a register the tables  *)
(* do not list, a read outside the text) has stored no word in out_buffer, *)
(* and the words stored by a call that completes are those of bin.         *)
C27_BufferUntouched ==
    /\ BeforeTheCopy => out_buffer = <<>>
    /\ pc = "written" => out_buffer = bin /\ error = "none" /\ bin # <<>>

(* the call failed in the translation, after the emitter had completed     *)
(* and a part of the words had been encoded                                *)
C27_Witness ==
    /\ pc = "failed"
    /\ error = "assert"
    /\ compile(address_map, parse_tree_, <<>>).st = "ok"
    /\ instructions_ = compile(address_map, parse_tree_, <<>>).ins
    /\ GetCompiledBinary(instructions_).binary # <<>>
    /\ out_buffer = <<>>

----------------------------------------------------------------------------
(* C28: the number of words written                                        *)

(* the words the claim counts for one node *)
NodeWords(t) ==
    CASE t.type = "Constant" -> 4
      [] t.type = "Variable" -> 5
      [] t.type \in ArithTags -> 3
      [] t.type = "Function" -> Len(t.sub_expressions) + 5
      [] OTHER -> 0

RECURSIVE TreeWords(_)
TreeWords(t) ==
    LET RECURSIVE Sum(_)
        Sum(i) == IF i = 0 THEN 0 ELSE Sum(i - 1) + TreeWords(t.sub_expressions[i])
    IN  NodeWords(t) + Sum(Len(t.sub_expressions))

(* C28: a call that succeeds has written exactly 4 + 4 * (Constant nodes)  *)
(* + 5 * (Variable nodes) + 3 * (Plus, Minus and Product nodes) + the sum  *)
(* over the Function nodes of (number of arguments + 5) words, at the      *)
(* word indices 0, 1, 2, ... of out_buffer without a gap.                  *)
C28_OutputSize ==
    pc = "written"
    => /\ Len(out_buffer) = 4 + TreeWords(parse_tree_)
       /\ DOMAIN out_buffer = 1..(4 + TreeWords(parse_tree_))
       /\ \A k \in DOMAIN out_buffer : out_buffer[k] = bin[k]

(* a call has written the 4 + (2 + 5) + (2 + 5) + 5 + 5 + 5 = 33 words of  *)
(* f(g(a,b),c)                                                             *)
C28_Witness ==
    /\ pc = "written"
    /\ parse_tree_.type = "Function"
    /\ Len(parse_tree_.sub_expressions) = 2
    /\ parse_tree_.sub_expressions[1].type = "Function"
    /\ Len(parse_tree_.sub_expressions[1].sub_expressions) = 2
    /\ \A i \in 1..2 : parse_tree_.sub_expressions[1].sub_expressions[i].type = "Variable"
    /\ parse_tree_.sub_expressions[2].type = "Variable"
    /\ Len(out_buffer) = 33

----------------------------------------------------------------------------
(* C29: the ranges of the recursive calls                                  *)

(* the calls of ParseExpression made, directly or not, by the call on      *)
(* (left0, right0): each with the range of the call that makes it.         *)
(* ParseArithmetic calls on (left, pos) and (pos + 1, right),              *)
(* ParseFunction on every range GetFunctionParameters returns.             *)
RECURSIVE RecursiveCalls(_, _, _, _)
RecursiveCalls(m, n, left0, right0) ==
    LET sp == StripLoop(m, n, left0, right0, 0, FALSE)
        left == left0 + sp.surplus
        right == right0 - sp.surplus
        f == FindArithmeticOperation(m, n, left, right)
        ps == GetFunctionParameters(m, n, left, right)
        direct ==
            IF sp.st # "ok" THEN {}
            ELSE IF f.st # "ok" THEN {}
            ELSE IF f.type # "Default" THEN {<<left, f.pos>>, <<f.pos + 1, right>>}
            ELSE IF IsConstant(m, left) THEN {}
            ELSE IF IsFunction(m, left, right)
            THEN IF ps.st # "ok" THEN {}
                 ELSE {ps.answer[k] : k \in 1..Len(ps.answer)}
            ELSE {}
    IN  {[caller |-> <<left0, right0>>, callee |-> c] : c \in direct}
        \cup UNION {RecursiveCalls(m, n, c[1], c[2]) : c \in direct}

ParserCalls ==
    LET s == GetRidOfSpaces(expression)
    IN  RecursiveCalls(s \o <<NUL>>, Len(s), 0, Len(s))

(* C29: in the parse of a well-formed text every recursive call of         *)
(* ParseExpression is made on a range that is strictly shorter than the    *)
(* range of its caller and contained in it.                                *)
C29_ShrinkingRanges ==
    (pc = "parsed" /\ WellShaped(expression))
    => \A c \in ParserCalls :
          /\ c.caller[1] <= c.callee[1]
          /\ c.callee[2] <= c.caller[2]
          /\ c.callee[2] - c.callee[1] < c.caller[2] - c.caller[1]

(* what holds of the code: every call starts at or after the start of its  *)
(* caller's range and stays inside the text, but a call made by            *)
(* ParseFunction may end after the end of its caller's range               *)
C29_CallsStayInText ==
    (pc = "parsed" /\ WellShaped(expression))
    => \A c \in ParserCalls :
          /\ c.caller[1] <= c.callee[1]
          /\ c.callee[1] <= c.callee[2]
          /\ c.callee[2] <= Len(GetRidOfSpaces(expression))

----------------------------------------------------------------------------
(* C30: the empty argument list                                            *)

EmptyCall == <<"f", "(", ")">>

RECURSIVE FunctionNodes(_)
FunctionNodes(t) ==
    (IF t.type = "Function" THEN {t} ELSE {})
    \cup UNION {FunctionNodes(t.sub_expressions[i]) : i \in 1..Len(t.sub_expressions)}

(* C30: "f()" is parsed to a Function node with exactly one child, the     *)
(* node Constant "0x0", and the emitted code calls f with r0 = 0; a list   *)
(* of ranges returned by GetFunctionParameters is never empty, so every    *)
(* Function node of a returned tree has a child.                           *)
C30_EmptyArgumentList ==
    /\ (pc = "parsed" /\ GetRidOfSpaces(expression) = EmptyCall)
       => parse_tree_ = MkNode("Function", Content(<<"f">>), <<ZeroNode>>)
    /\ (pc = "running" /\ expression = EmptyCall /\ address_map = Directory)
       => \A site \in CallSites(parse_tree_, Len(add_header(<<>>))) :
             CodeIndex(out_buffer, cpu[PCr]) = site.pops + 4
             => cpu[R0] = Zero32 /\ cpu[R4] = FnF
    /\ (pc = "returned" /\ expression = EmptyCall /\ address_map = Directory)
       => cpu[R0] = Apply(FnF, <<Zero32>>)
    /\ pc = "parsed"
       => LET s == GetRidOfSpaces(expression)
          IN  /\ \A left \in 0..Len(s) : \A right \in left..Len(s) :
                   LET ps == GetFunctionParameters(s \o <<NUL>>, Len(s), left, right)
                   IN  ps.st = "ok" => Len(ps.answer) >= 1
              /\ \A t \in FunctionNodes(parse_tree_) : Len(t.sub_expressions) >= 1

(* the code of "f()" is at its blx with 0 in r0 and the address of f in r4 *)
C30_Witness ==
    /\ pc = "running"
    /\ expression = EmptyCall
    /\ address_map = Directory
    /\ parse_tree_.sub_expressions = <<ZeroNode>>
    /\ out_buffer[CodeIndex(out_buffer, cpu[PCr]) + 1] = W(\hE12F, \hFF34)
    /\ cpu[R0] = Zero32
    /\ cpu[R4] = FnF

====
